---- MODULE Spec2Model ----
(***************************************************************************)
(* Aura build tool: the build orchestration engine.                        *)
(*                                                                         *)
(* Two generations of the engine live in the repository and both are       *)
(* modelled:                                                               *)
(*   - the context engine (ExecuteCommandWithContext, ExecuteAllWith-      *)
(*     Context, RunDepsWithContext, runTargetWithContext, buildCommand),   *)
(*     which returns errors up the call chain;                             *)
(*   - the legacy engine (ExecuteCommand, ExecuteAll, RunDeps, RunTarget,  *)
(*     main of executor.go and friends), which signals a fatal error by    *)
(*     os.Exit inside RaiseException.                                      *)
(* Strings are sequences of one-character strings, so that TrimSpace,      *)
(* HasPrefix and Contains are computed as the Go library computes them.    *)
(***************************************************************************)
EXTENDS Integers, Sequences, FiniteSets, TLC

VARIABLES
    cfg,        \* the global Config (types.go), read-only during a run
    legacy,     \* TRUE: the legacy binary (flag-based main), FALSE: buildCommand
    flags,      \* the --verbose, --parallel and --force flags (context engine only)
    stdout,     \* what buildCommand itself has printed about its flags
    dryRun,     \* the --dry-run global flag (context engine only)
    targets,    \* the -t flag after strings.Split(targets, ",")
    pc,         \* position of the top-level caller
    k,          \* index of the requested target being run
    stack,      \* call stack of lifecycle frames, innermost last
    result,     \* what the invocation returned (or the exit status it died with)
    log,        \* every command handed to the dispatcher, in order
    stderr,     \* the diagnostics written to standard error, in order
    cwd,        \* the process working directory
    environ,    \* the process environment (os.Getenv)
    ret         \* what the dispatcher returned to a caller that keeps it

vars == <<cfg, legacy, flags, stdout, dryRun, targets, pc, k, stack, result, log, stderr, cwd,
          environ, ret>>

-----------------------------------------------------------------------------
(* Bounds of the model *)

\* longest run list of a target
MaxRun == 2
\* most names in the -t flag
MaxReq == 2
\* frames the call stack can hold before the runtime aborts with a stack overflow
MaxDepth == 4
\* most dispatches of one invocation that the operating system lets fail
MaxFail == 2

-----------------------------------------------------------------------------
(* Strings *)

IsSpace(ch) == ch \in {" ", "\t", "\n"}

RECURSIVE TrimLeft(_)
TrimLeft(s) ==
    IF s # <<>> /\ IsSpace(Head(s)) THEN TrimLeft(Tail(s)) ELSE s

RECURSIVE TrimRight(_)
TrimRight(s) ==
    IF s # <<>> /\ IsSpace(s[Len(s)]) THEN TrimRight(SubSeq(s, 1, Len(s) - 1)) ELSE s

TrimSpace(s) == TrimRight(TrimLeft(s))

HasPrefix(s, p) == Len(s) >= Len(p) /\ SubSeq(s, 1, Len(p)) = p

TrimPrefix(s, p) == IF HasPrefix(s, p) THEN SubSeq(s, Len(p) + 1, Len(s)) ELSE s

Contains(s, sub) ==
    \E i \in 1..(Len(s) - Len(sub) + 1) : SubSeq(s, i, i + Len(sub) - 1) = sub

-----------------------------------------------------------------------------
(* CommandDispatcher *)

CD == <<"c", "d", " ">>

\* What the operating system answers to one dispatch: whether the shell
\* command exits with status 0, what it prints, whether os.Chdir succeeds.
ShellOutputs == {<<>>, <<"o">>}
Envs == [shellOk : BOOLEAN, chdirOk : BOOLEAN, out : ShellOutputs]

\* the directory the process is in when the run begins
StartDir == <<"/", "w">>

\* os.Chdir: the new working directory
Chdir(wd, dir) == IF Head(dir) = "/" THEN dir ELSE wd \o <<"/">> \o dir

\* (output, error) of a dispatch, with its effects: a subprocess spawned or
\* not, and the working directory it leaves
Ret(out, err, spawned, wd) == [out |-> out, err |-> err, spawned |-> spawned, cwd |-> wd]

\* faulty variant: a cd command goes to the shell like any other
ExecuteCommand_ShellsCd(command, env, wd) ==
    IF TrimSpace(command) = <<>>
    THEN Ret(<<>>, "empty command", FALSE, wd)
    ELSE Ret(env.out, IF env.shellOk THEN "nil" ELSE "exit status", TRUE, wd)

\* ExecuteCommand of the context engine
ExecuteCommand(command, env, wd) ==
    IF TrimSpace(command) = <<>>
    THEN Ret(<<>>, "empty command", FALSE, wd)
    ELSE IF HasPrefix(command, CD)
    THEN LET dir == TrimSpace(TrimPrefix(command, CD)) IN
         IF dir = <<>> THEN Ret(<<>>, "no directory specified for cd", FALSE, wd)
         ELSE IF ~env.chdirOk THEN Ret(<<>>, "chdir failed", FALSE, wd)
         ELSE Ret(<<>>, "nil", FALSE, Chdir(wd, dir))
    ELSE Ret(env.out, IF env.shellOk THEN "nil" ELSE "exit status", TRUE, wd)

\* faulty variant: the dry-run flag is not consulted
ExecuteCommandWithContext_IgnoresDryRun(command, dry, env, wd) ==
    ExecuteCommand(command, env, wd)

\* ExecuteCommandWithContext: dry-run returns before any OS interaction
\* (verbose only prints)
ExecuteCommandWithContext(command, dry, env, wd) ==
    IF dry THEN Ret(<<>>, "nil", FALSE, wd)
    ELSE ExecuteCommand(command, env, wd)

\* ExecuteCommand of the legacy engine: no check for an empty command
LegacyExecuteCommand(command, env, wd) ==
    IF HasPrefix(command, CD)
    THEN LET dir == TrimSpace(TrimPrefix(command, CD)) IN
         IF dir = <<>> THEN Ret(<<>>, "no directory specified for cd", FALSE, wd)
         ELSE IF ~env.chdirOk THEN Ret(<<>>, "chdir failed", FALSE, wd)
         ELSE Ret(<<>>, "nil", FALSE, Chdir(wd, dir))
    ELSE Ret(env.out, IF env.shellOk THEN "nil" ELSE "exit status", TRUE, wd)

-----------------------------------------------------------------------------
(* Data model *)

\* the flags of the build command besides --dry-run and -t, and their defaults
MaxJobs == 2
Flags == [verbose : BOOLEAN, parallel : 0..MaxJobs, force : BOOLEAN]
NoFlags == [verbose |-> FALSE, parallel |-> 1, force |-> FALSE]

\* a Go slice: nil, or a (possibly empty) list
NilSlice == [isNil |-> TRUE, s |-> <<>>]
Slice(s) == [isNil |-> FALSE, s |-> s]

\* type Target
Target(run, deps, onerror, coe) ==
    [Run |-> run, Deps |-> deps, Onerror |-> onerror, ContinueOnError |-> coe]

\* the zero value of Target, which a map lookup of an absent key yields
ZeroTarget == Target(NilSlice, NilSlice, <<>>, FALSE)

\* GetTarget: cfg.Targets[name]
GetTarget(name) ==
    IF name \in DOMAIN cfg.Targets THEN cfg.Targets[name] ELSE ZeroTarget

\* SkipError: local || cfg.ContinueOnError
SkipError(local) == local \/ cfg.ContinueOnError

PROLOGUE == <<"p", "r", "o", "l", "o", "g", "u", "e">>
EPILOGUE == <<"e", "p", "i", "l", "o", "g", "u", "e">>

-----------------------------------------------------------------------------
(* VariableResolver *)

WordChars ==
    {"a", "b", "c", "d", "e", "f", "g", "h", "i", "j", "k", "l", "m", "n", "o",
     "p", "q", "r", "s", "t", "u", "v", "w", "x", "y", "z",
     "A", "B", "C", "D", "E", "F", "G", "H", "I", "J", "K", "L", "M", "N", "O",
     "P", "Q", "R", "S", "T", "U", "V", "W", "X", "Y", "Z",
     "0", "1", "2", "3", "4", "5", "6", "7", "8", "9", "_"}

\* number of consecutive characters of s, from position p on, of the class
\* \w (word = TRUE) or of the class [^}] (word = FALSE)
RECURSIVE RunLen(_, _, _)
RunLen(s, p, word) ==
    IF p <= Len(s) /\ (IF word THEN s[p] \in WordChars ELSE s[p] # "}")
    THEN 1 + RunLen(s, p + 1, word)
    ELSE 0

\* faulty variant: the braces may be empty,  \$\w+|\$\{[^}]*\}|\$@
MatchLen_EmptyBraces(s, p) ==
    IF s[p] # "$" THEN 0
    ELSE LET w == RunLen(s, p + 1, TRUE)
             b == RunLen(s, p + 2, FALSE)
         IN  IF w > 0 THEN 1 + w
             ELSE IF p + 1 <= Len(s) /\ s[p + 1] = "{" /\ p + 2 + b <= Len(s)
                  THEN 3 + b
             ELSE IF p + 1 <= Len(s) /\ s[p + 1] = "@" THEN 2
             ELSE 0

\* length of the match of  \$\w+|\$\{[^}]+\}|\$@  that starts at position p
\* (0: none); the alternatives are tried in this order
MatchLen(s, p) ==
    IF s[p] # "$" THEN 0
    ELSE LET w == RunLen(s, p + 1, TRUE)
             b == RunLen(s, p + 2, FALSE)
         IN  IF w > 0 THEN 1 + w
             ELSE IF p + 1 <= Len(s) /\ s[p + 1] = "{" /\ b > 0 /\ p + 2 + b <= Len(s)
                  THEN 3 + b
             ELSE IF p + 1 <= Len(s) /\ s[p + 1] = "@" THEN 2
             ELSE 0

\* r.FindAllString(text, -1): the leftmost non-overlapping matches from p on
RECURSIVE FindAllString(_, _)
FindAllString(s, p) ==
    IF p > Len(s) THEN <<>>
    ELSE LET n == MatchLen(s, p) IN
         IF n > 0 THEN <<SubSeq(s, p, p + n - 1)>> \o FindAllString(s, p + n)
         ELSE FindAllString(s, p + 1)

\* strings.Trim(s, cutset)
RECURSIVE Trim(_, _)
Trim(s, cutset) ==
    IF s # <<>> /\ Head(s) \in cutset THEN Trim(Tail(s), cutset)
    ELSE IF s # <<>> /\ s[Len(s)] \in cutset THEN Trim(SubSeq(s, 1, Len(s) - 1), cutset)
    ELSE s

\* strings.Index(s, sub): first position of sub in s, 0 when absent
Index(s, sub) ==
    IF Contains(s, sub)
    THEN CHOOSE i \in 1..(Len(s) - Len(sub) + 1) :
            /\ SubSeq(s, i, i + Len(sub) - 1) = sub
            /\ \A j \in 1..(i - 1) : SubSeq(s, j, j + Len(sub) - 1) # sub
    ELSE 0

\* strings.Replace(s, old, new, 1)
Replace1(s, old, new) ==
    LET i == Index(s, old) IN
    IF i = 0 THEN s
    ELSE SubSeq(s, 1, i - 1) \o new \o SubSeq(s, i + Len(old), Len(s))

TIMESTAMP == <<"T", "I", "M", "E", "S", "T", "A", "M", "P">>
CWD == <<"c", "w", "d">>

\* time.Now().Format("2006-01-02 15:04:05"), for a clock reading
Now == <<"2", "0", "2", "5", "-", "0", "1", "-", "0", "2", " ",
         "0", "3", ":", "0", "4", ":", "0", "5">>

\* os.Getenv
Getenv(n) == IF n \in DOMAIN environ THEN environ[n] ELSE <<>>

\* GetVar (funcs.go): built-ins, then cfg.Vars unless the value is blank,
\* then the environment
FuncsGetVar(name, target_name, wd) ==
    LET n == Trim(name, {"$"})
        val == IF n \in DOMAIN cfg.Vars THEN cfg.Vars[n] ELSE <<>>
    IN  IF n = TIMESTAMP THEN Now
        ELSE IF n = <<"@">> THEN target_name
        ELSE IF n = CWD THEN wd
        ELSE IF TrimSpace(val) = <<>> THEN Getenv(n)
        ELSE val

\* faulty variant: the configured variables are consulted before the built-ins
GetVar_ConfigFirst(name, target_name, wd) ==
    LET n == Trim(name, {"$"}) IN
    IF n \in DOMAIN cfg.Vars THEN cfg.Vars[n]
    ELSE IF n = TIMESTAMP THEN Now
    ELSE IF n = <<"@">> THEN target_name
    ELSE IF n = CWD THEN wd
    ELSE Getenv(n)

\* faulty variant: `cwd` is served from the directory read when the run began
GetVar_CachedCwd(name, target_name, wd) ==
    LET n == Trim(name, {"$"}) IN
    IF n = TIMESTAMP THEN Now
    ELSE IF n = <<"@">> THEN target_name
    ELSE IF n = CWD THEN StartDir
    ELSE IF n \in DOMAIN cfg.Vars THEN cfg.Vars[n]
    ELSE Getenv(n)

\* GetVar (parse.go): built-ins, then cfg.Vars when the key exists, then the
\* environment
GetVar(name, target_name, wd) ==
    LET n == Trim(name, {"$"}) IN
    IF n = TIMESTAMP THEN Now
    ELSE IF n = <<"@">> THEN target_name
    ELSE IF n = CWD THEN wd
    ELSE IF n \in DOMAIN cfg.Vars THEN cfg.Vars[n]
    ELSE Getenv(n)

\* faulty variant: a token that resolves to nothing is replaced by nothing
RECURSIVE ParseLoop_ErasesUndefined(_, _, _, _, _)
ParseLoop_ErasesUndefined(text, ms, targetname, wd, warned) ==
    IF ms = <<>> THEN [text |-> text, warned |-> warned]
    ELSE LET m == Head(ms)
             varname == Trim(TrimPrefix(m, <<"$">>), {"{", "}"})
             val == GetVar(<<"$">> \o varname, targetname, wd)
         IN  ParseLoop_ErasesUndefined(Replace1(text, m, val), Tail(ms), targetname, wd,
                                       IF val = <<>> THEN Append(warned, m) ELSE warned)

\* the loop of ParseVars over the matches ms, on the working text; the result
\* carries the tokens warned about as undefined
RECURSIVE ParseLoop(_, _, _, _, _)
ParseLoop(text, ms, targetname, wd, warned) ==
    IF ms = <<>> THEN [text |-> text, warned |-> warned]
    ELSE LET m == Head(ms)
             varname == Trim(TrimPrefix(m, <<"$">>), {"{", "}"})
             val == GetVar(<<"$">> \o varname, targetname, wd)
         IN  IF val = <<>>
             THEN ParseLoop(text, Tail(ms), targetname, wd, Append(warned, m))
             ELSE ParseLoop(Replace1(text, m, val), Tail(ms), targetname, wd, warned)

\* ParseVars
ParseVars(text, targetname, wd) ==
    ParseLoop(text, FindAllString(text, 1), targetname, wd, <<>>)

\* the [warn] lines ParseVars writes, as stderr records
UndefinedWarnings(warned, targetname) ==
    [j \in 1..Len(warned) |-> [kind |-> "undefined variable", name |-> targetname]]

-----------------------------------------------------------------------------
(* Call stack *)

\* A frame is one running lifecycle: RunPrologueWithContext,
\* RunEpilogueWithContext or runTargetWithContext (RunPrologue, RunEpilogue,
\* RunTarget in the legacy engine).  phase "deps" is the loop of
\* RunDepsWithContext, phase "run" the loop of ExecuteAllWithContext; i is
\* the loop index; start is the length of the log when the frame was entered.
NewFrame(fn, name, target) ==
    [fn |-> fn, name |-> name, target |-> target, phase |-> "deps", i |-> 1,
     start |-> Len(log)]

Top == stack[Len(stack)]

SetTop(f) == [stack EXCEPT ![Len(stack)] = f]

Pop == SubSeq(stack, 1, Len(stack) - 1)

\* one record of the log: the command handed to the dispatcher and what came back
\* (stage and k say where the top-level caller stands, wd the directory the
\* process is in when the command is dispatched)
Entry(f, cmd, r) ==
    [fn |-> f.fn, name |-> f.name, i |-> f.i, cmd |-> cmd, err |-> r.err,
     spawned |-> r.spawned, stage |-> pc, k |-> k, wd |-> cwd]

NoRet == Ret(<<>>, "nil", FALSE, StartDir)

\* the answers the operating system may give to the next dispatch: anything,
\* until MaxFail dispatches have failed, and success from then on
NumFailed == Cardinality({j \in 1..Len(log) : log[j].err # "nil"})
EnvsNow ==
    IF NumFailed < MaxFail THEN Envs
    ELSE {e \in Envs : e.shellOk /\ e.chdirOk}

\* faulty variant: a blank onerror text is taken for a text
Diagnostic_Untrimmed(name, target, err) ==
    IF target.Onerror = <<>>
    THEN [name |-> name, onerror |-> <<>>, err |-> err]
    ELSE [name |-> name, onerror |-> target.Onerror, err |-> "nil"]

\* the text composed for a failed command: "in <name> -> " followed by the
\* target's onerror text, or by the error's own text when onerror is blank
Diagnostic(name, target, err) ==
    IF TrimSpace(target.Onerror) = <<>>
    THEN [name |-> name, onerror |-> <<>>, err |-> err]
    ELSE [name |-> name, onerror |-> target.Onerror, err |-> "nil"]

NoDiagnostic == [name |-> <<>>, onerror |-> <<>>, err |-> "nil"]

Message(kind, diag) == [kind |-> kind, diag |-> diag]

\* the value an invocation ends with
Result(kind, diag) == [kind |-> kind, diag |-> diag]
Running == Result("running", NoDiagnostic)
Nil == Result("nil", NoDiagnostic)

\* a call of runTargetWithContext / RunTarget: a new frame, unless the call
\* stack is exhausted, which kills the process ("goroutine stack exceeds
\* limit: fatal error: stack overflow")
Call(fn, name, target) ==
    IF Len(stack) >= MaxDepth
    THEN /\ stack' = <<>>
         /\ pc' = "done"
         /\ result' = Result("stack overflow", NoDiagnostic)
    ELSE /\ stack' = Append(stack, NewFrame(fn, name, target))
         /\ UNCHANGED <<pc, result>>

\* faulty variant: the caller drops the error and goes on with its next entry
ReturnError_Dropped(e) ==
    IF Len(stack) > 1
    THEN /\ stack' = [Pop EXCEPT ![Len(stack) - 1].i = @ + 1]
         /\ UNCHANGED <<pc, result>>
    ELSE /\ stack' = <<>>
         /\ pc' = "done"
         /\ result' = e

\* `return err` up the whole call chain, to the caller of buildCommand
ReturnError(e) ==
    /\ stack' = <<>>
    /\ pc' = "done"
    /\ result' = e

\* faulty variant: the loop over the requested targets skips every other name
ReturnNil_SkipsTarget ==
    IF Len(stack) > 1
    THEN /\ stack' = [Pop EXCEPT ![Len(stack) - 1].i = @ + 1]
         /\ UNCHANGED <<pc, k, result>>
    ELSE /\ stack' = <<>>
         /\ pc' = CASE pc = "prologue" -> "targets"
                    [] pc = "targets" -> "targets"
                    [] pc = "epilogue" -> "done"
         /\ k' = IF pc = "targets" THEN k + 2 ELSE k
         /\ result' = IF pc = "epilogue" THEN Nil ELSE result

\* `return nil` of a lifecycle: the caller goes on, a RunDepsWithContext loop
\* with its next entry, the top level with its next stage
ReturnNil ==
    IF Len(stack) > 1
    THEN /\ stack' = [Pop EXCEPT ![Len(stack) - 1].i = @ + 1]
         /\ UNCHANGED <<pc, k, result>>
    ELSE /\ stack' = <<>>
         /\ pc' = CASE pc = "prologue" -> "targets"
                    [] pc = "targets" -> "targets"
                    [] pc = "epilogue" -> "done"
         /\ k' = IF pc = "targets" THEN k + 1 ELSE k
         /\ result' = IF pc = "epilogue" THEN Nil ELSE result

-----------------------------------------------------------------------------
(* The context engine *)

\* what buildCommand prints about its flags when verbose is set (the only
\* use it makes of parallel and force)
Printed(line, value) == [line |-> line, value |-> value]
Banner ==
    IF flags.verbose
    THEN <<Printed("Parallel jobs", flags.parallel), Printed("Force rebuild", flags.force)>>
         \o (IF dryRun THEN <<Printed("DRY RUN MODE", TRUE)>> ELSE <<>>)
    ELSE <<>>

\* buildCommand up to the call of runPrologueWithContext (the working
\* directory and the configuration are in place)
buildCommand ==
    /\ ~legacy
    /\ pc = "start"
    /\ pc' = "prologue"
    /\ stack' = <<NewFrame("RunPrologueWithContext", PROLOGUE, cfg.Prologue)>>
    /\ stdout' = Banner
    /\ UNCHANGED <<cfg, legacy, flags, dryRun, targets, k, result, log, stderr, cwd, environ, ret>>

\* buildCommand after the prologue: no targets lists them and returns; else
\* the targets one by one, then the epilogue
buildCommandTargets ==
    /\ ~legacy
    /\ pc = "targets"
    /\ stack = <<>>
    /\ IF targets = <<>>
       THEN /\ pc' = "done"
            /\ result' = Nil
            /\ UNCHANGED stack
       ELSE IF k <= Len(targets)
       THEN Call("runTargetWithContext", TrimSpace(targets[k]),
                 GetTarget(TrimSpace(targets[k])))
       ELSE /\ pc' = "epilogue"
            /\ stack' = <<NewFrame("RunEpilogueWithContext", EPILOGUE, cfg.Epilogue)>>
            /\ UNCHANGED result
    /\ UNCHANGED <<cfg, legacy, flags, stdout, dryRun, targets, k, log, stderr, cwd, environ, ret>>

\* faulty variant: the test for a file dependency is inverted
RunDepsWithContext_Inverted ==
    /\ ~legacy
    /\ stack # <<>>
    /\ Top.phase = "deps"
    /\ Top.i <= Len(Top.target.Deps.s)
    /\ LET dep == Top.target.Deps.s[Top.i] IN
       IF ~Contains(dep, <<".">>)
       THEN /\ stack' = SetTop([Top EXCEPT !.i = @ + 1])
            /\ UNCHANGED <<pc, result>>
       ELSE Call("runTargetWithContext", dep, GetTarget(dep))
    /\ UNCHANGED <<cfg, legacy, flags, stdout, dryRun, targets, k, log, stderr, cwd, environ, ret>>

\* faulty variant: the loop does not move past a file dependency
RunDepsWithContext_StuckOnFile ==
    /\ ~legacy
    /\ stack # <<>>
    /\ Top.phase = "deps"
    /\ Top.i <= Len(Top.target.Deps.s)
    /\ LET dep == Top.target.Deps.s[Top.i] IN
       IF Contains(dep, <<".">>)
       THEN UNCHANGED <<stack, pc, result>>
       ELSE Call("runTargetWithContext", dep, GetTarget(dep))
    /\ UNCHANGED <<cfg, legacy, flags, stdout, dryRun, targets, k, log, stderr, cwd, environ, ret>>

\* faulty variant: a dry-run does not walk the dependencies
RunDepsWithContext_DryRunSkips ==
    /\ ~legacy
    /\ stack # <<>>
    /\ Top.phase = "deps"
    /\ Top.i <= Len(Top.target.Deps.s)
    /\ LET dep == Top.target.Deps.s[Top.i] IN
       IF dryRun \/ Contains(dep, <<".">>)
       THEN /\ stack' = SetTop([Top EXCEPT !.i = @ + 1])
            /\ UNCHANGED <<pc, result>>
       ELSE Call("runTargetWithContext", dep, GetTarget(dep))
    /\ UNCHANGED <<cfg, legacy, flags, stdout, dryRun, targets, k, log, stderr, cwd, environ, ret>>

\* faulty variant: a dependency that has run before is not run again
RunDepsWithContext_Memoized ==
    /\ ~legacy
    /\ stack # <<>>
    /\ Top.phase = "deps"
    /\ Top.i <= Len(Top.target.Deps.s)
    /\ LET dep == Top.target.Deps.s[Top.i] IN
       IF Contains(dep, <<".">>) \/ \E j \in 1..Len(log) : log[j].name = dep
       THEN /\ stack' = SetTop([Top EXCEPT !.i = @ + 1])
            /\ UNCHANGED <<pc, result>>
       ELSE Call("runTargetWithContext", dep, GetTarget(dep))
    /\ UNCHANGED <<cfg, legacy, flags, stdout, dryRun, targets, k, log, stderr, cwd, environ, ret>>

\* faulty variant: a file dependency is looked up like any other
RunDepsWithContext_LooksUpFiles ==
    /\ ~legacy
    /\ stack # <<>>
    /\ Top.phase = "deps"
    /\ Top.i <= Len(Top.target.Deps.s)
    /\ LET dep == Top.target.Deps.s[Top.i] IN
       Call("runTargetWithContext", dep, GetTarget(dep))
    /\ UNCHANGED <<cfg, legacy, flags, stdout, dryRun, targets, k, log, stderr, cwd, environ, ret>>

\* one iteration of the loop of RunDepsWithContext
RunDepsWithContext ==
    /\ ~legacy
    /\ stack # <<>>
    /\ Top.phase = "deps"
    /\ Top.i <= Len(Top.target.Deps.s)
    /\ LET dep == Top.target.Deps.s[Top.i] IN
       IF Contains(dep, <<".">>)
       THEN /\ stack' = SetTop([Top EXCEPT !.i = @ + 1])
            /\ UNCHANGED <<pc, result>>
       ELSE Call("runTargetWithContext", dep, GetTarget(dep))
    /\ UNCHANGED <<cfg, legacy, flags, stdout, dryRun, targets, k, log, stderr, cwd, environ, ret>>

\* RunPrologueWithContext / RunEpilogueWithContext once the dependencies
\* returned nil: on to ExecuteAllWithContext
RunPrologueWithContext ==
    /\ ~legacy
    /\ stack # <<>>
    /\ Top.fn \in {"RunPrologueWithContext", "RunEpilogueWithContext"}
    /\ Top.phase = "deps"
    /\ Top.i > Len(Top.target.Deps.s)
    /\ stack' = SetTop([Top EXCEPT !.phase = "run", !.i = 1])
    /\ UNCHANGED <<cfg, legacy, flags, stdout, dryRun, targets, pc, k, result, log, stderr, cwd, environ, ret>>

\* faulty variant: a dry-run does not check that the target exists
NotFound_NotInDryRun(target) == ~dryRun /\ target.Run.isNil /\ target.Deps.isNil

\* faulty variant: a target is taken for missing when its lists are empty
NotFound_ByLength(target) == target.Run.s = <<>> /\ target.Deps.s = <<>>

\* the check of runTargetWithContext that the looked-up target exists
NotFound(target) == target.Run.isNil /\ target.Deps.isNil

\* runTargetWithContext once the dependencies returned nil
runTargetWithContext ==
    /\ ~legacy
    /\ stack # <<>>
    /\ Top.fn = "runTargetWithContext"
    /\ Top.phase = "deps"
    /\ Top.i > Len(Top.target.Deps.s)
    /\ IF NotFound(Top.target)
       THEN ReturnError(Result("NotFoundError", [NoDiagnostic EXCEPT !.name = Top.name]))
       ELSE /\ stack' = SetTop([Top EXCEPT !.phase = "run", !.i = 1])
            /\ UNCHANGED <<pc, result>>
    /\ UNCHANGED <<cfg, legacy, flags, stdout, dryRun, targets, k, log, stderr, cwd, environ, ret>>

\* faulty variant: --force makes every target continue on error
EffectiveContinue_Forced(target) ==
    target.ContinueOnError \/ cfg.ContinueOnError \/ flags.force

\* faulty variant: the policy of the requested target covers its dependencies
EffectiveContinue_Requester(target) ==
    target.ContinueOnError \/ cfg.ContinueOnError \/ stack[1].target.ContinueOnError

\* faulty variant: the policy is applied the wrong way round
EffectiveContinue_Inverted(target) == ~(target.ContinueOnError \/ cfg.ContinueOnError)

\* faulty variant: the global flag is forgotten
EffectiveContinue_TargetOnly(target) == target.ContinueOnError

\* the continuation policy of ExecuteAllWithContext
EffectiveContinue(target) == target.ContinueOnError \/ cfg.ContinueOnError

\* faulty variant: the `@` context is the target the top-level caller asked for
ContextName_Requester(f) == stack[1].name

\* the `@` context of ParseVars(cmd, name): the name ExecuteAllWithContext
\* was called with
ContextName(f) == f.name

\* one iteration of the loop of ExecuteAllWithContext, or its `return nil`
ExecuteAllWithContext ==
    /\ ~legacy
    /\ stack # <<>>
    /\ Top.phase = "run"
    /\ IF Top.i <= Len(Top.target.Run.s)
       THEN \E env \in EnvsNow :
            LET f == Top
                pv == ParseVars(f.target.Run.s[f.i], ContextName(f), cwd)
                r == ExecuteCommandWithContext(pv.text, dryRun, env, cwd)
                warns == UndefinedWarnings(pv.warned, f.name)
                diag == Diagnostic(f.name, f.target, r.err)
            IN  /\ log' = Append(log, Entry(f, pv.text, r))
                /\ cwd' = r.cwd
                /\ IF r.err # "nil" /\ ~dryRun
                   THEN IF EffectiveContinue(f.target)
                        THEN /\ stderr' = stderr \o warns \o <<Message("Warning", diag)>>
                             /\ stack' = SetTop([f EXCEPT !.i = @ + 1])
                             /\ UNCHANGED <<pc, result>>
                        ELSE /\ stderr' = stderr \o warns
                             /\ ReturnError(Result("ExecutionError", diag))
                   ELSE /\ stderr' = stderr \o warns
                        /\ stack' = SetTop([f EXCEPT !.i = @ + 1])
                        /\ UNCHANGED <<pc, result>>
                /\ UNCHANGED k
       ELSE /\ ReturnNil
            /\ UNCHANGED <<log, stderr, cwd>>
    /\ UNCHANGED <<cfg, legacy, flags, stdout, dryRun, targets, environ, ret>>

-----------------------------------------------------------------------------
(* The legacy engine *)

\* RaiseException: the line on stderr (after what was already written
\* there), then os.Exit(exception_number) unless exit is set (sic: exit = TRUE
\* means "do not exit"); when it returns, the caller goes on with stack `on`
RaiseException(written, exception, diag, exit, on) ==
    /\ stderr' = Append(written, Message(exception, diag))
    /\ IF ~exit
       THEN /\ stack' = <<>>
            /\ pc' = "done"
            /\ result' = Result(exception, diag)
       ELSE /\ stack' = on
            /\ UNCHANGED <<pc, result>>

\* main up to cfg.RunPrologue()
main ==
    /\ legacy
    /\ pc = "start"
    /\ pc' = "prologue"
    /\ stack' = <<NewFrame("RunPrologue", PROLOGUE, cfg.Prologue)>>
    /\ UNCHANGED <<cfg, legacy, flags, stdout, dryRun, targets, k, result, log, stderr, cwd, environ, ret>>

\* main after the prologue: the targets of -t one by one, then the epilogue
mainTargets ==
    /\ legacy
    /\ pc = "targets"
    /\ stack = <<>>
    /\ IF k <= Len(targets)
       THEN Call("RunTarget", targets[k], GetTarget(targets[k]))
       ELSE /\ pc' = "epilogue"
            /\ stack' = <<NewFrame("RunEpilogue", EPILOGUE, cfg.Epilogue)>>
            /\ UNCHANGED result
    /\ UNCHANGED <<cfg, legacy, flags, stdout, dryRun, targets, k, log, stderr, cwd, environ, ret>>

\* one iteration of the loop of RunDeps
RunDeps ==
    /\ legacy
    /\ stack # <<>>
    /\ Top.phase = "deps"
    /\ Top.i <= Len(Top.target.Deps.s)
    /\ LET dep == Top.target.Deps.s[Top.i] IN
       IF Contains(dep, <<".">>)
       THEN /\ stack' = SetTop([Top EXCEPT !.i = @ + 1])
            /\ UNCHANGED <<pc, result>>
       ELSE Call("RunTarget", dep, GetTarget(dep))
    /\ UNCHANGED <<cfg, legacy, flags, stdout, dryRun, targets, k, log, stderr, cwd, environ, ret>>

\* RunPrologue / RunEpilogue once RunDeps returned: on to ExecuteAll
RunPrologue ==
    /\ legacy
    /\ stack # <<>>
    /\ Top.fn \in {"RunPrologue", "RunEpilogue"}
    /\ Top.phase = "deps"
    /\ Top.i > Len(Top.target.Deps.s)
    /\ stack' = SetTop([Top EXCEPT !.phase = "run", !.i = 1])
    /\ UNCHANGED <<cfg, legacy, flags, stdout, dryRun, targets, pc, k, result, log, stderr, cwd, environ, ret>>

\* RunTarget once RunDeps returned
RunTarget ==
    /\ legacy
    /\ stack # <<>>
    /\ Top.fn = "RunTarget"
    /\ Top.phase = "deps"
    /\ Top.i > Len(Top.target.Deps.s)
    /\ LET exit == SkipError(Top.target.ContinueOnError) IN
       IF NotFound(Top.target)
       THEN RaiseException(stderr, "TARGET_NOT_FOUND",
                           [NoDiagnostic EXCEPT !.name = Top.name], exit,
                           SetTop([Top EXCEPT !.phase = "run", !.i = 1]))
       ELSE /\ stack' = SetTop([Top EXCEPT !.phase = "run", !.i = 1])
            /\ UNCHANGED <<pc, result, stderr>>
    /\ UNCHANGED <<cfg, legacy, flags, stdout, dryRun, targets, k, log, cwd, environ, ret>>

\* one iteration of the loop of ExecuteAll, or its return
ExecuteAll ==
    /\ legacy
    /\ stack # <<>>
    /\ Top.phase = "run"
    /\ IF Top.i <= Len(Top.target.Run.s)
       THEN \E env \in EnvsNow :
            LET f == Top
                pv == ParseVars(f.target.Run.s[f.i], f.name, cwd)
                r == LegacyExecuteCommand(pv.text, env, cwd)
                warns == UndefinedWarnings(pv.warned, f.name)
                diag == Diagnostic(f.name, f.target, r.err)
                exit_status == SkipError(f.target.ContinueOnError)
            IN  /\ log' = Append(log, Entry(f, pv.text, r))
                /\ cwd' = r.cwd
                /\ IF r.err # "nil"
                   THEN RaiseException(stderr \o warns, "TARGET_ERROR", diag, exit_status,
                                       SetTop([f EXCEPT !.i = @ + 1]))
                   ELSE /\ stderr' = stderr \o warns
                        /\ stack' = SetTop([f EXCEPT !.i = @ + 1])
                        /\ UNCHANGED <<pc, result>>
                /\ UNCHANGED k
       ELSE /\ ReturnNil
            /\ UNCHANGED <<log, stderr, cwd>>
    /\ UNCHANGED <<cfg, legacy, flags, stdout, dryRun, targets, environ, ret>>

-----------------------------------------------------------------------------
(* Configurations and invocations *)

A == <<"a">>
B == <<"b">>
C == <<"c">>
FILE == <<"f", ".", "o">>
MAKE == <<"m">>

\* lists of at most n elements of S
SeqsUpTo(S, n) == UNION {[1..m -> S] : m \in 0..n}

\* run lists: absent, or up to MaxRun shell commands
RunLists == {NilSlice} \cup {Slice(s) : s \in SeqsUpTo({MAKE}, MaxRun) \ {<<>>}}

\* target a: any run list, either policy, and the dependency shapes: none,
\* one target, two targets in order, itself, a file before a target
TargetsA ==
    {Target(r, d, <<>>, c) :
        r \in RunLists,
        d \in {NilSlice, Slice(<<B>>), Slice(<<B, C>>), Slice(<<A>>), Slice(<<FILE, B>>)},
        c \in BOOLEAN}

\* target b: undeclared, or one command and the dependency shapes: none, c,
\* back on a
TargetsB ==
    {Target(Slice(<<MAKE>>), d, <<>>, FALSE) :
        d \in {NilSlice, Slice(<<C>>), Slice(<<A>>)}}

TargetC == Target(Slice(<<MAKE>>), NilSlice, <<>>, FALSE)

\* cfg.Targets: a and c declared, b declared or not
TargetMaps ==
    {[n \in {A, C} |-> IF n = A THEN a ELSE TargetC] : a \in TargetsA}
    \cup {[n \in {A, B, C} |-> IF n = A THEN a ELSE IF n = B THEN b ELSE TargetC] :
            a \in TargetsA, b \in TargetsB}

\* no prologue, or one with a dependency and a command
Prologues == {ZeroTarget, Target(Slice(<<MAKE>>), Slice(<<C>>), <<>>, FALSE)}

Epilogues == {Target(Slice(<<MAKE>>), NilSlice, <<>>, FALSE)}

Configs ==
    [ContinueOnError : BOOLEAN, Prologue : Prologues, Vars : {<<>>},
     Targets : TargetMaps, Epilogue : Epilogues]

\* the -t flag: the first names of "a,b,a,b,..."
Requests == {[j \in 1..n |-> IF j % 2 = 1 THEN A ELSE B] : n \in 0..MaxReq}

InitWith(cfgs, engines, modes) ==
    /\ cfg \in cfgs
    /\ legacy \in engines
    /\ dryRun \in modes
    /\ flags = NoFlags
    /\ stdout = <<>>
    /\ targets \in Requests
    /\ pc = "start"
    /\ k = 1
    /\ stack = <<>>
    /\ result = Running
    /\ log = <<>>
    /\ stderr = <<>>
    /\ cwd = StartDir
    /\ environ = <<>>
    /\ ret = NoRet

\* an invocation of the build command of the context engine
Init == InitWith(Configs, {FALSE}, BOOLEAN)

Next ==
    \/ buildCommand
    \/ buildCommandTargets
    \/ RunDepsWithContext
    \/ RunPrologueWithContext
    \/ runTargetWithContext
    \/ ExecuteAllWithContext

Spec == Init /\ [][Next]_vars


\* an invocation of the legacy binary
LegacyInit == InitWith(Configs, {TRUE}, {FALSE})

LegacyNext ==
    \/ main
    \/ mainTargets
    \/ RunDeps
    \/ RunPrologue
    \/ RunTarget
    \/ ExecuteAll

LegacySpec == LegacyInit /\ [][LegacyNext]_vars

-----------------------------------------------------------------------------
(* Invocations whose commands change directory and hold variables *)

\* the commands: cd d, $cwd, $@, $U (U is defined nowhere)
CD_D == <<"c", "d", " ", "d">>
ASK_CWD == <<"$", "c", "w", "d">>
ASK_AT == <<"$", "@">>
ASK_U == <<"$", "U">>

\* target a: one to MaxRun of these commands, alone or depending on b
VarTargetsA ==
    {Target(Slice(r), d, <<>>, FALSE) :
        r \in SeqsUpTo({CD_D, ASK_CWD, ASK_AT, ASK_U}, MaxRun) \ {<<>>},
        d \in {NilSlice, Slice(<<B>>)}}

VarTargetsB ==
    {Target(Slice(r), NilSlice, <<>>, FALSE) : r \in {<<ASK_AT>>, <<ASK_U, ASK_CWD>>}}

\* the prologue changes directory and names itself; the epilogue asks where
\* it is and names itself
VarConfigs ==
    [ContinueOnError : BOOLEAN,
     Prologue : {Target(Slice(<<CD_D, ASK_AT>>), NilSlice, <<>>, FALSE)},
     Vars : {<<>>},
     Targets : {[n \in {A, B} |-> IF n = A THEN a ELSE b] :
                   a \in VarTargetsA, b \in VarTargetsB},
     Epilogue : {Target(Slice(<<ASK_CWD, ASK_AT>>), NilSlice, <<>>, FALSE)}]

\* the build command asked for target a
VarsInit ==
    /\ InitWith(VarConfigs, {FALSE}, BOOLEAN)
    /\ targets = <<A>>

VarsSpec == VarsInit /\ [][Next]_vars

-----------------------------------------------------------------------------
(* The dispatcher called on its own, as the unit tests call it *)

\* longest command text
MaxLen == 4

Alphabet == {"c", "d", " ", "m"}
Commands == SeqsUpTo(Alphabet, MaxLen)

DirectCall(fn, command) ==
    [fn |-> fn, name |-> <<>>, target |-> ZeroTarget, phase |-> "run", i |-> 1,
     start |-> Len(log)]

\* r := <fn>(command, ...), leaving the return value with the caller
Dispatch(fn, command, r) ==
    /\ pc = "call"
    /\ pc' = "done"
    /\ log' = Append(log, Entry(DirectCall(fn, command), command, r))
    /\ cwd' = r.cwd
    /\ ret' = r
    /\ UNCHANGED <<cfg, legacy, flags, stdout, dryRun, targets, k, stack, result, stderr, environ>>

CallExecuteCommandWithContext ==
    /\ pc = "call"
    /\ ~legacy
    /\ \E command \in Commands, env \in Envs :
        Dispatch("ExecuteCommandWithContext", command,
                    ExecuteCommandWithContext(command, dryRun, env, cwd))

CallExecuteCommand ==
    /\ pc = "call"
    /\ ~legacy
    /\ ~dryRun
    /\ \E command \in Commands, env \in Envs :
        Dispatch("ExecuteCommand", command, ExecuteCommand(command, env, cwd))

CallLegacyExecuteCommand ==
    /\ pc = "call"
    /\ legacy
    /\ \E command \in Commands, env \in Envs :
        Dispatch("ExecuteCommand", command, LegacyExecuteCommand(command, env, cwd))

DispatchInit ==
    /\ cfg \in [ContinueOnError : {FALSE}, Prologue : {ZeroTarget}, Vars : {<<>>},
                Targets : {<<>>}, Epilogue : {ZeroTarget}]
    /\ legacy \in BOOLEAN
    /\ dryRun \in BOOLEAN
    /\ flags = NoFlags
    /\ stdout = <<>>
    /\ legacy => ~dryRun
    /\ targets = <<>>
    /\ pc = "call"
    /\ k = 1
    /\ stack = <<>>
    /\ result = Running
    /\ log = <<>>
    /\ stderr = <<>>
    /\ cwd = StartDir
    /\ environ = <<>>
    /\ ret = NoRet

DispatchNext ==
    \/ CallExecuteCommandWithContext
    \/ CallExecuteCommand
    \/ CallLegacyExecuteCommand

DispatchSpec == DispatchInit /\ [][DispatchNext]_vars

-----------------------------------------------------------------------------
(* ParseVars called on its own, as the unit tests call it *)

\* longest text over the letters of variable names
MaxText == 6
\* longest text that may also hold braces
MaxBrace == 4

VarA == <<"A">>
VarB == <<"B">>

\* the texts handed to ParseVars
Texts ==
    SeqsUpTo({"$", "A", "B"}, MaxText) \cup SeqsUpTo({"$", "A", "B", "{", "}"}, MaxBrace)

\* cfg.Vars: A undefined, plain, or holding the text of a token (another
\* one, or one that begins like its own); B undefined or plain
VarMaps ==
    {[n \in D |-> IF n = VarA THEN a ELSE <<"w">>] :
        D \in SUBSET {VarA, VarB}, a \in {<<"v">>, <<"$", "B">>, <<"$", "A", "A">>}}

\* the target name the tests pass
TEST == <<"t">>

\* one call of ParseVars, as the log keeps it
Parsed(text, name, pv) ==
    [fn |-> "ParseVars", text |-> text, name |-> name, out |-> pv.text,
     warned |-> pv.warned]

\* result := ParseVars(text, target)
CallParseVars ==
    /\ pc = "call"
    /\ \E text \in Texts :
         LET pv == ParseVars(text, TEST, cwd) IN
         /\ log' = Append(log, Parsed(text, TEST, pv))
         /\ stderr' = stderr \o UndefinedWarnings(pv.warned, TEST)
    /\ pc' = "parsed"
    /\ UNCHANGED <<cfg, legacy, flags, stdout, dryRun, targets, k, stack, result, cwd, environ, ret>>

\* result = ParseVars(result, target): the output parsed once more
CallParseVarsAgain ==
    /\ pc = "parsed"
    /\ LET text == log[Len(log)].out
           pv == ParseVars(text, TEST, cwd)
       IN  /\ log' = Append(log, Parsed(text, TEST, pv))
           /\ stderr' = stderr \o UndefinedWarnings(pv.warned, TEST)
    /\ pc' = "done"
    /\ UNCHANGED <<cfg, legacy, flags, stdout, dryRun, targets, k, stack, result, cwd, environ, ret>>

ParseInit ==
    /\ cfg \in [ContinueOnError : {FALSE}, Prologue : {ZeroTarget}, Vars : VarMaps,
                Targets : {<<>>}, Epilogue : {ZeroTarget}]
    /\ legacy = FALSE
    /\ dryRun = FALSE
    /\ flags = NoFlags
    /\ stdout = <<>>
    /\ targets = <<>>
    /\ pc = "call"
    /\ k = 1
    /\ stack = <<>>
    /\ result = Running
    /\ log = <<>>
    /\ stderr = <<>>
    /\ cwd = StartDir
    /\ environ = <<>>
    /\ ret = NoRet

ParseNext ==
    \/ CallParseVars
    \/ CallParseVarsAgain

ParseSpec == ParseInit /\ [][ParseNext]_vars

-----------------------------------------------------------------------------
(* GetVar called on its own, as the unit tests call it *)

AT == <<"@">>
BuiltIns == {AT, CWD, TIMESTAMP}

\* a map with the keys of D, A holding a and every other key holding v
VarMap(D, a, v) == [n \in D |-> IF n = VarA THEN a ELSE v]

\* cfg.Vars: A absent, empty, blank or set; the built-in names configured as
\* variables or not
ResolveVars ==
    {VarMap(D, a, <<"x">>) :
        D \in {{}, {VarA}, BuiltIns, BuiltIns \cup {VarA}},
        a \in {<<>>, <<" ">>, <<"v">>}}

\* the environment: A set or not, the built-in names set or not
ResolveEnvs ==
    {VarMap(D, <<"e">>, <<"y">>) : D \in {{}, {VarA}, BuiltIns, BuiltIns \cup {VarA}}}

\* the names asked for, with and without the leading `$`
VarNames == {VarA, <<"$", "A">>, VarB, AT, <<"$", "@">>, CWD, TIMESTAMP}

TargetNames == {<<>>, TEST}

\* one call of GetVar, as the log keeps it
Resolved(fn, name, target_name, out) ==
    [fn |-> fn, arg |-> name, name |-> target_name, out |-> out]

\* result := GetVar(name, target_name), the GetVar of parse.go
CallGetVar ==
    /\ pc = "call"
    /\ \E name \in VarNames, target_name \in TargetNames :
         log' = Append(log, Resolved("GetVar", name, target_name,
                                     GetVar(name, target_name, cwd)))
    /\ pc' = "done"
    /\ UNCHANGED <<cfg, legacy, flags, stdout, dryRun, targets, k, stack, result, stderr, cwd, environ, ret>>

\* result := GetVar(name, target_name), the GetVar of funcs.go
CallFuncsGetVar ==
    /\ pc = "call"
    /\ \E name \in VarNames, target_name \in TargetNames :
         log' = Append(log, Resolved("funcs.GetVar", name, target_name,
                                     FuncsGetVar(name, target_name, cwd)))
    /\ pc' = "done"
    /\ UNCHANGED <<cfg, legacy, flags, stdout, dryRun, targets, k, stack, result, stderr, cwd, environ, ret>>

ResolveInit ==
    /\ cfg \in [ContinueOnError : {FALSE}, Prologue : {ZeroTarget}, Vars : ResolveVars,
                Targets : {<<>>}, Epilogue : {ZeroTarget}]
    /\ legacy = FALSE
    /\ dryRun = FALSE
    /\ flags = NoFlags
    /\ stdout = <<>>
    /\ targets = <<>>
    /\ pc = "call"
    /\ k = 1
    /\ stack = <<>>
    /\ result = Running
    /\ log = <<>>
    /\ stderr = <<>>
    /\ cwd = StartDir
    /\ environ \in ResolveEnvs
    /\ ret = NoRet

ResolveNext ==
    \/ CallGetVar
    \/ CallFuncsGetVar

ResolveSpec == ResolveInit /\ [][ResolveNext]_vars

-----------------------------------------------------------------------------
(* Vocabulary of the properties *)

\* the target a log entry belongs to
TargetOf(e) ==
    IF e.fn \in {"RunPrologueWithContext", "RunPrologue"} THEN cfg.Prologue
    ELSE IF e.fn \in {"RunEpilogueWithContext", "RunEpilogue"} THEN cfg.Epilogue
    ELSE GetTarget(e.name)

\* the continuation policy as the documentation states it
ContinueFlag(target) == target.ContinueOnError \/ cfg.ContinueOnError

Failed(e) == e.err # "nil"

\* a failure that must abort the invocation
FatalFailure(e) == Failed(e) /\ ~dryRun /\ ~ContinueFlag(TargetOf(e))

\* entries j-n+1 .. j of the log are commands 1 .. n of one activation of
\* target `name`
IsRunOf(name, j, n) ==
    /\ n <= j
    /\ \A m \in 1..n : log[j - n + m].name = name /\ log[j - n + m].i = m

\* the log from position from+1 on, as <<target name, command index>> pairs
Trace(from) == [j \in 1..(Len(log) - from) |-> <<log[from + j].name, log[from + j].i>>]

\* What a lifecycle dispatches when nothing aborts it: the lifecycles of its
\* target dependencies in declaration order, then its own commands.  fuel is
\* the depth of calls left; a walk that needs more ends in <<name, 0>>, which
\* no log entry equals.
RECURSIVE Lifecycle(_, _, _), DepsLifecycle(_, _)
Lifecycle(name, target, fuel) ==
    IF fuel = 0 THEN << <<name, 0>> >>
    ELSE DepsLifecycle(target.Deps.s, fuel)
         \o [j \in 1..Len(target.Run.s) |-> <<name, j>>]
DepsLifecycle(deps, fuel) ==
    IF deps = <<>> THEN <<>>
    ELSE (IF "." \in {Head(deps)[x] : x \in 1..Len(Head(deps))} THEN <<>>
          ELSE Lifecycle(Head(deps), GetTarget(Head(deps)), fuel - 1))
         \o DepsLifecycle(Tail(deps), fuel)

IsPrefix(s, t) == Len(s) <= Len(t) /\ SubSeq(t, 1, Len(s)) = s

-----------------------------------------------------------------------------
(* C1 *)

\* C1: a running ExecuteAllWithContext of a target without continue flag, not
\* in dry-run, has dispatched exactly commands 1..i-1 in list order, all of
\* them successfully; a failed command of such a target is the last command
\* dispatched, comes after its predecessors in the list, and makes the
\* invocation end with an execution error; and an execution error is returned
\* only after such a failure.
C1_StopsAtFirstFailure ==
    /\ (stack # <<>> /\ Top.phase = "run" /\ ~dryRun /\ ~ContinueFlag(Top.target)) =>
          /\ IsRunOf(Top.name, Len(log), Top.i - 1)
          /\ \A m \in 1..(Top.i - 1) : ~Failed(log[Len(log) - m + 1])
          /\ Top.i <= Len(Top.target.Run.s) + 1
    /\ \A j \in 1..Len(log) :
          FatalFailure(log[j]) =>
              /\ j = Len(log)
              /\ IsRunOf(log[j].name, j, log[j].i)
              /\ \A m \in 1..(log[j].i - 1) : ~Failed(log[j - m])
              /\ pc = "done"
              /\ result.kind = "ExecutionError"
              /\ result.diag.name = log[j].name
    /\ result.kind = "ExecutionError" => (log # <<>> /\ FatalFailure(log[Len(log)]))

\* a second command failed after a first one succeeded, or a first command
\* failed and left a later one undispatched
C1_Witness ==
    /\ pc = "done"
    /\ result.kind = "ExecutionError"
    /\ log # <<>>
    /\ LET e == log[Len(log)] IN
       /\ FatalFailure(e)
       /\ e.i < Len(TargetOf(e).Run.s)

-----------------------------------------------------------------------------
(* C2 *)

-----------------------------------------------------------------------------
(* C3 *)

\* names of the targets warned about on stderr, in order
RECURSIVE WarnedNames(_)
WarnedNames(msgs) ==
    IF msgs = <<>> THEN <<>>
    ELSE (IF Head(msgs).kind = "Warning" THEN <<Head(msgs).diag.name>> ELSE <<>>)
         \o WarnedNames(Tail(msgs))

\* names of the targets of the failed commands that the policy lets pass
RECURSIVE ToleratedNames(_)
ToleratedNames(entries) ==
    IF entries = <<>> THEN <<>>
    ELSE (IF Failed(Head(entries)) /\ ContinueFlag(TargetOf(Head(entries)))
          THEN <<Head(entries).name>> ELSE <<>>)
         \o ToleratedNames(Tail(entries))

ContinuingRun ==
    stack # <<>> /\ Top.phase = "run" /\ ~dryRun /\ ContinueFlag(Top.target)

\* C3: while ExecuteAllWithContext runs a target whose target-level or global
\* continue flag is set (not in dry-run), each step dispatches the next
\* command of the list, whatever the previous ones returned, and goes on with
\* the same lifecycle; after the last command it returns without an error;
\* and stderr holds one warning for each failed command of such targets, in
\* the order of the failures.
C3_ContinueOnError ==
    /\ [](~dryRun => WarnedNames(stderr) = ToleratedNames(log))
    /\ []((ContinuingRun) => IsRunOf(Top.name, Len(log), Top.i - 1))
    /\ [][ContinuingRun =>
            IF Top.i <= Len(Top.target.Run.s)
            THEN /\ Len(log') = Len(log) + 1
                 /\ log'[Len(log')].name = Top.name
                 /\ log'[Len(log')].i = Top.i
                 /\ Len(stack') = Len(stack)
                 /\ stack'[Len(stack')].i = Top.i + 1
                 /\ pc' = pc
                 /\ result' = result
            ELSE /\ log' = log
                 /\ Len(stack') = Len(stack) - 1
                 /\ result'.kind \in {"running", "nil"}]_vars

\* a continuing target has run all its commands, the first of which failed
C3_Witness ==
    /\ ContinuingRun
    /\ Top.i = Len(Top.target.Run.s) + 1
    /\ Top.i > 2
    /\ Failed(log[Len(log) - Top.i + 2])
    /\ WarnedNames(stderr) # <<>>

-----------------------------------------------------------------------------
(* C5 *)

\* C5: whenever a lifecycle is at its commands, what has been dispatched
\* since it was entered is exactly: the whole lifecycle of each of its target
\* dependencies, one after the other in declaration order, followed by its
\* own commands so far.
C5_DependenciesFirst ==
    (stack # <<>> /\ Top.phase = "run") =>
        Trace(Top.start) =
            DepsLifecycle(Top.target.Deps.s, MaxDepth - Len(stack) + 1)
            \o [j \in 1..(Top.i - 1) |-> <<Top.name, j>>]

\* a target with two target dependencies, one of which has a dependency of
\* its own, is dispatching its commands
C5_Witness ==
    /\ stack # <<>>
    /\ Top.fn = "runTargetWithContext"
    /\ Top.phase = "run"
    /\ Top.i = 2
    /\ Len(Top.target.Deps.s) = 2
    /\ \E d \in 1..2 : GetTarget(Top.target.Deps.s[d]).Deps.s # <<>>
    /\ Len(log) - Top.start >= 4

-----------------------------------------------------------------------------
(* C7 *)

\* position of a log entry in the order prologue, requested targets, epilogue
StageRank(e) ==
    IF e.stage = "prologue" THEN 0
    ELSE IF e.stage = "targets" THEN e.k
    ELSE Len(targets) + 1

RECURSIVE StageTrace(_, _)
StageTrace(entries, r) ==
    IF entries = <<>> THEN <<>>
    ELSE (IF StageRank(Head(entries)) = r
          THEN << <<Head(entries).name, Head(entries).i>> >> ELSE <<>>)
         \o StageTrace(Tail(entries), r)

\* what stage r dispatches when nothing aborts it
StageLifecycle(r) ==
    IF r = 0 THEN Lifecycle(PROLOGUE, cfg.Prologue, MaxDepth)
    ELSE IF r <= Len(targets) THEN Lifecycle(targets[r], GetTarget(targets[r]), MaxDepth)
    ELSE Lifecycle(EPILOGUE, cfg.Epilogue, MaxDepth)

\* C7: the commands are dispatched stage by stage (prologue, then each
\* requested target in the order of the list, then epilogue); when a command
\* of some stage is dispatched, every earlier stage has dispatched its whole
\* lifecycle, and the stage itself is following its own lifecycle.  The log
\* only grows, so stating this of the latest entry in every state states it
\* of every entry at the moment it was dispatched.
C7_StageOrder ==
    /\ \A i \in 1..Len(log), j \in 1..Len(log) :
          i < j => StageRank(log[i]) <= StageRank(log[j])
    /\ log # <<>> =>
          LET last == StageRank(log[Len(log)])
          IN  /\ \A r \in 0..(last - 1) : StageTrace(log, r) = StageLifecycle(r)
              /\ IsPrefix(StageTrace(log, last), StageLifecycle(last))

\* the epilogue is dispatching after a prologue with a dependency and two
\* requested targets
C7_Witness ==
    /\ log # <<>>
    /\ log[Len(log)].stage = "epilogue"
    /\ Len(targets) = 2
    /\ cfg.Prologue.Deps.s # <<>>
    /\ \A r \in 0..2 : StageTrace(log, r) # <<>>

-----------------------------------------------------------------------------
(* C4 *)

NotFoundKinds == {"NotFoundError", "TARGET_NOT_FOUND"}

\* a lifecycle was entered for a name that cfg.Targets does not declare
UndeclaredOnTop ==
    /\ stack # <<>>
    /\ Top.fn \in {"runTargetWithContext", "RunTarget"}
    /\ Top.name \notin DOMAIN cfg.Targets

\* C4: the step taken by the lifecycle of an undeclared name, requested or
\* depended upon, ends the invocation with a target-not-found error, and
\* dispatches nothing, whatever the continue flags are.
C4_NotFoundAlwaysAborts ==
    [][UndeclaredOnTop =>
          /\ pc' = "done"
          /\ stack' = <<>>
          /\ result'.kind \in NotFoundKinds
          /\ log' = log]_vars

-----------------------------------------------------------------------------
(* C6 *)

\* C6: a dependency walk never exhausts the call stack (a cycle is reported
\* as an error before it does).
C6_CycleReported == result.kind # "stack overflow"

-----------------------------------------------------------------------------
(* C8 *)

PrologueHasRun == StageTrace(log, 0) = StageLifecycle(0)

EpilogueHasRun ==
    \A j \in 1..Len(cfg.Epilogue.Run.s) :
        \E m \in 1..Len(log) : log[m].stage = "epilogue" /\ log[m].name = EPILOGUE /\ log[m].i = j

\* C8: an invocation that has run its prologue does not end before the
\* commands of its epilogue have been dispatched.
C8_EpilogueAlwaysRuns == (pc = "done" /\ PrologueHasRun) => EpilogueHasRun

-----------------------------------------------------------------------------
(* C9 *)

\* C9: in dry-run every dispatch returns empty output and no error, spawns
\* nothing and leaves the working directory where it was.
C9_DryRunDispatch ==
    dryRun =>
        /\ ret.out = <<>>
        /\ ret.err = "nil"
        /\ ~ret.spawned
        /\ cwd = StartDir
        /\ \A j \in 1..Len(log) : log[j].err = "nil" /\ ~log[j].spawned

\* a cd command naming a directory went through the dry-run dispatcher
C9_Witness ==
    /\ dryRun
    /\ log # <<>>
    /\ log[1].fn = "ExecuteCommandWithContext"
    /\ HasPrefix(log[1].cmd, CD)
    /\ TrimSpace(TrimPrefix(log[1].cmd, CD)) # <<>>

-----------------------------------------------------------------------------
(* C10 *)

\* C10: a dispatch (not in dry-run) of a command that is empty or all
\* whitespace returns an error and no output, spawns nothing and leaves the
\* working directory where it was.
C10_EmptyCommandRejected ==
    \A j \in 1..Len(log) :
        (~dryRun /\ TrimSpace(log[j].cmd) = <<>>) =>
            /\ log[j].err # "nil"
            /\ ~log[j].spawned
            /\ ret.out = <<>>
            /\ cwd = StartDir

-----------------------------------------------------------------------------
(* C11 *)

\* C11: a dispatch (not in dry-run) of a command that starts with "cd " spawns
\* no subprocess; either it returns no error and no output and the working
\* directory is the one os.Chdir reaches with the trimmed argument, or it
\* returns an error and the working directory is where it was.
C11_CdNeverSpawns ==
    \A j \in 1..Len(log) :
        (~dryRun /\ HasPrefix(log[j].cmd, CD)) =>
            LET dir == TrimSpace(TrimPrefix(log[j].cmd, CD)) IN
            /\ ~log[j].spawned
            /\ \/ /\ log[j].err = "nil"
                  /\ ret.out = <<>>
                  /\ dir # <<>>
                  /\ cwd = Chdir(StartDir, dir)
               \/ /\ log[j].err # "nil"
                  /\ cwd = StartDir

\* a cd command naming a directory was dispatched for real and moved the
\* process there
C11_Witness ==
    /\ ~dryRun
    /\ log # <<>>
    /\ HasPrefix(log[1].cmd, CD)
    /\ log[1].err = "nil"
    /\ cwd # StartDir

-----------------------------------------------------------------------------
(* Vocabulary of the properties of ParseVars *)

\* what the token m stands for: the resolution of its variable name
Resolution(m, name, wd) ==
    GetVar(<<"$">> \o Trim(TrimPrefix(m, <<"$">>), {"{", "}"}), name, wd)

\* The text from position p on with every token occurrence of non-empty
\* resolution replaced, at its own position, by its value, and everything
\* else (literal characters, tokens of empty resolution) kept as it is.
RECURSIVE Substituted(_, _, _, _)
Substituted(text, p, name, wd) ==
    IF p > Len(text) THEN <<>>
    ELSE LET n == MatchLen(text, p)
             m == SubSeq(text, p, p + n - 1)
             val == Resolution(m, name, wd)
         IN  IF n = 0 THEN <<text[p]>> \o Substituted(text, p + 1, name, wd)
             ELSE (IF val = <<>> THEN m ELSE val) \o Substituted(text, p + n, name, wd)

\* the token occurrences of a text, left to right
Tokens(text) == FindAllString(text, 1)

\* the occurrences, among the tokens ms, of tokens that resolve to nothing
RECURSIVE Undefined(_, _, _)
Undefined(ms, name, wd) ==
    IF ms = <<>> THEN <<>>
    ELSE (IF Resolution(Head(ms), name, wd) = <<>> THEN <<Head(ms)>> ELSE <<>>)
         \o Undefined(Tail(ms), name, wd)

\* the calls of ParseVars in the log
ParseCalls == {j \in 1..Len(log) : log[j].fn = "ParseVars"}

\* A text holds a token: a `$` followed by a word character or by `@`, or by
\* `{`, at least one character other than `}`, and a `}` further on.
HasToken(text) ==
    \E p \in 1..(Len(text) - 1) :
        /\ text[p] = "$"
        /\ \/ text[p + 1] \in WordChars
           \/ text[p + 1] = "@"
           \/ /\ text[p + 1] = "{"
              /\ p + 3 <= Len(text)
              /\ text[p + 2] # "}"
              /\ \E q \in (p + 3)..Len(text) : text[q] = "}"

-----------------------------------------------------------------------------
(* C13 *)

\* C13: the output of ParseVars is its input with each token occurrence
\* replaced at its own position by its value; inserted text is not scanned or
\* substituted again.  (Stated of the texts all of whose tokens resolve to
\* something, where nothing but inserted text can mislead a replacement.)
C13_InsertedTextIsLiteral ==
    \A j \in ParseCalls :
        Undefined(Tokens(log[j].text), log[j].name, cwd) = <<>>
        => log[j].out = Substituted(log[j].text, 1, log[j].name, cwd)

-----------------------------------------------------------------------------
(* C14 *)

\* C14: when the tokens of a text are two or more occurrences of one token
\* whose resolution is not empty, every one of them is replaced by the value,
\* where it stands, whatever the value is and whatever literal text stands
\* around them.
C14_AllOccurrencesReplaced ==
    \A j \in ParseCalls :
        LET ms == Tokens(log[j].text) IN
        (/\ Len(ms) >= 2
         /\ \A a \in 1..Len(ms) : ms[a] = ms[1]
         /\ Resolution(ms[1], log[j].name, cwd) # <<>>)
        => log[j].out = Substituted(log[j].text, 1, log[j].name, cwd)

-----------------------------------------------------------------------------
(* C15 *)

\* C15: when a text holds a token that resolves to nothing, and no value
\* holds a `$`, every such occurrence stays where it is, unchanged, the
\* other tokens being replaced by their values; and the call warns once for
\* each such occurrence, in order.
C15_UndefinedLeftVerbatim ==
    \A j \in ParseCalls :
        LET ms == Tokens(log[j].text)
            undef == Undefined(ms, log[j].name, cwd)
        IN  (/\ undef # <<>>
             /\ \A n \in DOMAIN cfg.Vars : ~Contains(cfg.Vars[n], <<"$">>))
            => /\ log[j].out = Substituted(log[j].text, 1, log[j].name, cwd)
               /\ log[j].warned = undef

-----------------------------------------------------------------------------
(* C19 *)

\* C19: ParseVars returns a text that holds no token as it is and warns
\* about nothing; so parsing its output again changes nothing.
C19_TokenFreeIsIdentity ==
    \A j \in ParseCalls :
        ~HasToken(log[j].text) =>
            /\ log[j].out = log[j].text
            /\ log[j].warned = <<>>
            /\ stderr = <<>>
            /\ (j > 1 /\ log[j].text = log[j - 1].out) => log[j].out = log[j - 1].out

\* a text with dollars and braces but no token was parsed, and its output
\* parsed again
C19_Witness ==
    /\ Len(log) = 2
    /\ log[2].fn = "ParseVars"
    /\ ~HasToken(log[1].text)
    /\ Contains(log[1].text, <<"$", "{">>)
    /\ Contains(log[1].text, <<"}">>)

-----------------------------------------------------------------------------
(* C16, C17 *)

\* the calls of GetVar in the log, of either file
GetVarCalls == {j \in 1..Len(log) : log[j].fn \in {"GetVar", "funcs.GetVar"}}

\* the variable a call asks for
Asked(j) == Trim(log[j].arg, {"$"})

\* C16: for a name that is not a built-in, GetVar returns the configured
\* value whenever the name is a key of cfg.Vars, empty and blank values
\* included; otherwise the environment variable of that name, or the empty
\* string.
C16_ConfiguredValueWins ==
    \A j \in GetVarCalls :
        Asked(j) \notin BuiltIns =>
            log[j].out = IF Asked(j) \in DOMAIN cfg.Vars THEN cfg.Vars[Asked(j)]
                         ELSE IF Asked(j) \in DOMAIN environ THEN environ[Asked(j)]
                         ELSE <<>>

\* C17: GetVar resolves `@` to the target name it is given, the empty name
\* included, `cwd` to the working directory and TIMESTAMP to the clock,
\* whatever cfg.Vars and the environment hold under these names.
C17_BuiltInsFirst ==
    \A j \in GetVarCalls :
        /\ Asked(j) = AT => log[j].out = log[j].name
        /\ Asked(j) = CWD => log[j].out = cwd
        /\ Asked(j) = TIMESTAMP => log[j].out = Now

\* `@` was asked for with the empty target name, while cfg.Vars and the
\* environment both hold a variable named `@`
C17_Witness ==
    /\ log # <<>>
    /\ log[1].fn = "GetVar"
    /\ log[1].arg = <<"$", "@">>
    /\ log[1].name = <<>>
    /\ AT \in DOMAIN cfg.Vars
    /\ AT \in DOMAIN environ

-----------------------------------------------------------------------------
(* Vocabulary of the properties of variables in a run *)

\* the command of the configuration that a log entry was made from
Raw(e) == TargetOf(e).Run.s[e.i]

\* a cd that took effect
MovedBy(e) == ~dryRun /\ HasPrefix(e.cmd, CD) /\ e.err = "nil"

\* the directory the process is in after the first j dispatches: the one the
\* latest cd that took effect led to, the start directory if there is none
RECURSIVE DirAfter(_)
DirAfter(j) ==
    IF j = 0 THEN StartDir
    ELSE IF MovedBy(log[j])
         THEN Chdir(DirAfter(j - 1), TrimSpace(TrimPrefix(log[j].cmd, CD)))
         ELSE DirAfter(j - 1)

-----------------------------------------------------------------------------
(* C12 *)

\* C12: the working directory is, at every moment, the one the latest
\* successful cd of the whole run led to, whichever target issued it; the
\* command being dispatched runs there, and `$cwd` in it resolves to that
\* directory.  (The log only grows: stating this of the latest dispatch in
\* every state states it of every dispatch.)
C12_CdPersists ==
    /\ cwd = DirAfter(Len(log))
    /\ log # <<>> =>
          LET e == log[Len(log)] IN
          /\ e.wd = DirAfter(Len(log) - 1)
          /\ Raw(e) = ASK_CWD => e.cmd = DirAfter(Len(log) - 1)

\* the epilogue asked for `$cwd` after a cd of the prologue and a cd of a
\* requested target had both taken effect
C12_Witness ==
    /\ log # <<>>
    /\ log[Len(log)].stage = "epilogue"
    /\ Raw(log[Len(log)]) = ASK_CWD
    /\ \E j \in 1..Len(log) : log[j].stage = "prologue" /\ MovedBy(log[j])
    /\ \E j \in 1..Len(log) : log[j].stage = "targets" /\ MovedBy(log[j])

-----------------------------------------------------------------------------
(* C18 *)

\* the name a lifecycle runs under
OwnName(e) ==
    IF e.stage = "prologue" /\ e.fn = "RunPrologueWithContext" THEN PROLOGUE
    ELSE IF e.stage = "epilogue" /\ e.fn = "RunEpilogueWithContext" THEN EPILOGUE
    ELSE e.name

\* C18: a command `$@` is dispatched as the name of the target in whose run
\* list it stands: a dependency's command as the dependency's name, the
\* prologue's and the epilogue's as "prologue" and "epilogue".
C18_AtIsOwnTarget ==
    \A j \in 1..Len(log) :
        /\ Raw(log[j]) = ASK_AT => log[j].cmd = OwnName(log[j])
        /\ log[j].cmd \in {A, B} => GetTarget(log[j].cmd).Run.s[log[j].i] = ASK_AT
        /\ log[j].cmd = PROLOGUE => cfg.Prologue.Run.s[log[j].i] = ASK_AT
        /\ log[j].cmd = EPILOGUE => cfg.Epilogue.Run.s[log[j].i] = ASK_AT

\* `$@` of b was dispatched while b ran as a dependency of the requested a
C18_Witness ==
    \E j \in 1..Len(log) :
        /\ log[j].stage = "targets"
        /\ targets[log[j].k] = A
        /\ log[j].name = B
        /\ log[j].cmd = B

-----------------------------------------------------------------------------
(* C20 *)

\* the dispatches of a command that holds the undefined variable
UndefinedDispatches == {j \in 1..Len(log) : Raw(log[j]) = ASK_U}

\* C20: a command that holds an undefined variable is dispatched with the
\* token in place and one warning; the run ends with an error only when its
\* latest dispatch failed (and not in dry-run), and a run that ends without
\* error after requested targets has gone all the way to the epilogue.
C20_UndefinedNeverAborts ==
    /\ \A j \in UndefinedDispatches : log[j].cmd = ASK_U
    /\ Cardinality({m \in 1..Len(stderr) : stderr[m].kind = "undefined variable"})
          = Cardinality(UndefinedDispatches)
    /\ result.kind \notin {"running", "nil"} =>
          /\ log # <<>>
          /\ log[Len(log)].err # "nil"
          /\ ~dryRun
    /\ (result.kind = "nil" /\ targets # <<>>) =>
          /\ log # <<>>
          /\ log[Len(log)].stage = "epilogue"
          /\ log[Len(log)].i = Len(cfg.Epilogue.Run.s)

\* a run ended without error, all the way through the epilogue, after
\* dispatching a command with an undefined variable for real
C20_Witness ==
    /\ ~dryRun
    /\ pc = "done"
    /\ result.kind = "nil"
    /\ \E j \in UndefinedDispatches : log[j].err = "nil" /\ log[j].spawned /\ j < Len(log)

-----------------------------------------------------------------------------
(* loadConfig called on its own, as TestConfigSecurityValidation calls it *)

\* longest configuration path
MaxPath == 4

SEP == <<"/">>
DOTDOT == <<".", ".">>

\* the elements of a path between its separators, empty ones included
RECURSIVE Split(_)
Split(path) ==
    IF \A i \in 1..Len(path) : path[i] # "/" THEN <<path>>
    ELSE LET i == CHOOSE n \in 1..Len(path) :
                      path[n] = "/" /\ \A m \in 1..(n - 1) : path[m] # "/"
         IN  <<SubSeq(path, 1, i - 1)>> \o Split(SubSeq(path, i + 1, Len(path)))

\* filepath.Clean's walk over the elements: empty and "." elements dropped,
\* ".." taking the element before it away, dropped at the root and kept at
\* the head of a relative path
RECURSIVE CleanElements(_, _, _)
CleanElements(parts, rooted, acc) ==
    IF parts = <<>> THEN acc
    ELSE LET e == Head(parts) IN
         CleanElements(Tail(parts), rooted,
            IF e = <<>> \/ e = <<".">> THEN acc
            ELSE IF e = DOTDOT
                 THEN IF acc # <<>> /\ acc[Len(acc)] # DOTDOT
                      THEN SubSeq(acc, 1, Len(acc) - 1)
                      ELSE IF rooted THEN acc ELSE Append(acc, e)
                 ELSE Append(acc, e))

RECURSIVE JoinElements(_)
JoinElements(parts) ==
    IF parts = <<>> THEN <<>>
    ELSE IF Len(parts) = 1 THEN parts[1]
    ELSE parts[1] \o SEP \o JoinElements(Tail(parts))

\* filepath.IsAbs
IsAbs(path) == path # <<>> /\ Head(path) = "/"

\* filepath.Clean
Clean(path) ==
    LET out == JoinElements(CleanElements(Split(path), IsAbs(path), <<>>)) IN
    IF IsAbs(path) THEN SEP \o out
    ELSE IF out = <<>> THEN <<".">> ELSE out

\* filepath.Join of two elements
Join(a, b) ==
    IF a = <<>> THEN (IF b = <<>> THEN <<>> ELSE Clean(b))
    ELSE IF b = <<>> THEN Clean(a)
    ELSE Clean(a \o SEP \o b)

\* filepath.Dir
Dir(path) ==
    LET cuts == {i \in 1..Len(path) : path[i] = "/"} IN
    IF cuts = {} THEN <<".">>
    ELSE Clean(SubSeq(path, 1, CHOOSE i \in cuts : \A m \in cuts : m <= i))

\* what a path of the file system holds: a directory, a file that is not
\* YAML, or a YAML document with its include list and its variables
Holds(kind, includes, vs) == [kind |-> kind, Includes |-> includes, Vars |-> vs]
DIRECTORY == Holds("directory", <<>>, <<>>)
GARBAGE == Holds("garbage", <<>>, <<>>)
Document(includes) == Holds("yaml", includes, (VarA :> <<"v">>))

OUTSIDE == <<"/", "c">>
INSIDE == StartDir \o <<"/", "c">>

\* the include lists of a document: none, a file beside it, a file one
\* directory up, a name that holds two dots
IncludeLists == {<<>>, <<<<"c">>>>, <<<<".", ".", "/", "c">>>>, <<<<"c", ".", ".">>>>}
Contents == {GARBAGE} \cup {Document(i) : i \in IncludeLists}

\* the file systems: the root and the working directory, and a file c in
\* either of them or in neither
FileSystems ==
    {[p \in {SEP, StartDir} \cup F |->
          IF p = OUTSIDE THEN o ELSE IF p = INSIDE THEN n ELSE DIRECTORY] :
        F \in SUBSET {OUTSIDE, INSIDE}, o \in Contents, n \in Contents}

\* the paths handed to loadConfig
Paths == SeqsUpTo({"/", ".", "c"}, MaxPath)

\* os.Open
Opened(path, fs) == [fn |-> "os.Open", path |-> path,
                     err |-> IF path \in DOMAIN fs THEN "nil" ELSE "no such file"]

\* yaml.NewDecoder(f).Decode(&cfg): the document's fields written over cfg's
Decodes(path, fs) == fs[path].kind = "yaml"
Decoded(path, fs) == [fn |-> "Decode", path |-> path,
                      err |-> IF Decodes(path, fs) THEN "nil" ELSE "yaml"]
Decode(c, doc) ==
    [c EXCEPT !.Vars = [n \in DOMAIN c.Vars \cup DOMAIN doc.Vars |->
                            IF n \in DOMAIN doc.Vars THEN doc.Vars[n] ELSE c.Vars[n]]]

\* what loadConfig has done so far: the configuration, the files opened and
\* decoded, the warnings printed
Loaded(c, events, warnings, err) ==
    [cfg |-> c, events |-> events, warnings |-> warnings, err |-> err]

\* the include loop of loadConfig
RECURSIVE LoadIncludes(_, _, _, _)
LoadIncludes(includes, configPath, fs, sofar) ==
    IF includes = <<>> THEN sofar
    ELSE
      LET inc == Head(includes)
          incPath == Clean(IF IsAbs(inc) THEN inc ELSE Join(Dir(configPath), inc))
          warn(kind) == Append(sofar.warnings, [kind |-> kind, name |-> inc])
          open == Append(sofar.events, Opened(incPath, fs))
      IN  LoadIncludes(Tail(includes), configPath, fs,
            IF Contains(incPath, DOTDOT)
            THEN [sofar EXCEPT !.warnings = warn("invalid include path")]
            ELSE IF incPath \notin DOMAIN fs
            THEN [sofar EXCEPT !.events = open, !.warnings = warn("cannot load include")]
            ELSE IF ~Decodes(incPath, fs)
            THEN [sofar EXCEPT !.events = Append(open, Decoded(incPath, fs)),
                               !.warnings = warn("failed to parse include")]
            ELSE [sofar EXCEPT !.events = Append(open, Decoded(incPath, fs)),
                               !.cfg = Decode(sofar.cfg, fs[incPath])])

\* loadConfig
LoadConfig(path, wd, fs, c) ==
    LET configPath == Clean(IF IsAbs(path) THEN path ELSE Join(wd, path)) IN
    IF Contains(configPath, DOTDOT)
    THEN Loaded(c, <<>>, <<>>, "ValidationError")
    ELSE IF configPath \notin DOMAIN fs
    THEN Loaded(c, <<Opened(configPath, fs)>>, <<>>, "NotFoundError")
    ELSE IF ~Decodes(configPath, fs)
    THEN Loaded(c, <<Opened(configPath, fs), Decoded(configPath, fs)>>, <<>>,
                "ValidationError")
    ELSE LoadIncludes(fs[configPath].Includes, configPath, fs,
            Loaded(Decode(c, fs[configPath]),
                   <<Opened(configPath, fs), Decoded(configPath, fs)>>, <<>>, "nil"))

\* err := loadConfig(path)
CallLoadConfig ==
    /\ pc = "call"
    /\ \E path \in Paths, fs \in FileSystems :
         LET l == LoadConfig(path, cwd, fs, cfg) IN
         /\ log' = <<[fn |-> "loadConfig", path |-> path, fs |-> fs]>> \o l.events
         /\ cfg' = l.cfg
         /\ stderr' = l.warnings
         /\ result' = Result(l.err, NoDiagnostic)
    /\ pc' = "done"
    /\ UNCHANGED <<legacy, flags, stdout, dryRun, targets, k, stack, cwd, environ, ret>>

LoadInit ==
    /\ cfg = [ContinueOnError |-> FALSE, Prologue |-> ZeroTarget, Vars |-> <<>>,
              Targets |-> <<>>, Epilogue |-> ZeroTarget]
    /\ legacy = FALSE
    /\ dryRun = FALSE
    /\ flags = NoFlags
    /\ stdout = <<>>
    /\ targets = <<>>
    /\ pc = "call"
    /\ k = 1
    /\ stack = <<>>
    /\ result = Running
    /\ log = <<>>
    /\ stderr = <<>>
    /\ cwd = StartDir
    /\ environ = <<>>
    /\ ret = NoRet

LoadNext == CallLoadConfig

LoadSpec == LoadInit /\ [][LoadNext]_vars

-----------------------------------------------------------------------------
(* C21 *)

\* the path has an element that is ".."
Traverses(path) == \E i \in 1..Len(Split(path)) : Split(path)[i] = DOTDOT

\* C21: loadConfig called with a path that has a ".." element returns an
\* error and opens no file.
C21_TraversalRejected ==
    (log # <<>> /\ Traverses(log[1].path)) =>
        /\ result.kind # "nil"
        /\ \A j \in 2..Len(log) : log[j].fn # "os.Open"

-----------------------------------------------------------------------------
(* Invocations that look up absent, empty and file-named targets *)

\* target a: no run list, an empty one or commands; no deps list, an empty
\* one, target b, or a file before target b
LookupTargetsA ==
    {Target(r, d, <<>>, c) :
        r \in {NilSlice} \cup {Slice(s) : s \in SeqsUpTo({MAKE}, MaxRun)},
        d \in {NilSlice, Slice(<<>>), Slice(<<B>>), Slice(<<FILE, B>>)},
        c \in BOOLEAN}

\* target b: declared without keys, with an empty list, or with a command
LookupTargetsB ==
    {ZeroTarget, Target(Slice(<<>>), NilSlice, <<>>, FALSE),
     Target(NilSlice, Slice(<<>>), <<>>, FALSE), Target(Slice(<<MAKE>>), NilSlice, <<>>, FALSE)}

\* cfg.Targets: a declared; b and a target named like the file declared or not
LookupTargetMaps ==
    {[n \in {A} \cup D |-> IF n = A THEN a ELSE IF n = B THEN b ELSE TargetC] :
        a \in LookupTargetsA, b \in LookupTargetsB, D \in SUBSET {B, FILE}}

LookupConfigs ==
    [ContinueOnError : BOOLEAN, Prologue : {ZeroTarget}, Vars : {<<>>},
     Targets : LookupTargetMaps, Epilogue : {ZeroTarget}]

\* the build command asked for target a
LookupInit ==
    /\ InitWith(LookupConfigs, {FALSE}, BOOLEAN)
    /\ targets = <<A>>

LookupSpec == LookupInit /\ [][Next]_vars

-----------------------------------------------------------------------------
(* C22 *)

\* runTargetWithContext is about to make its check: the dependencies of the
\* looked-up target have returned
AtNotFoundCheck ==
    /\ stack # <<>>
    /\ Top.fn = "runTargetWithContext"
    /\ Top.phase = "deps"
    /\ Top.i > Len(Top.target.Deps.s)

NoEntries(target) == target.Run.s = <<>> /\ target.Deps.s = <<>>
Absent(target) == target.Run.isNil /\ target.Deps.isNil

\* C22: runTargetWithContext returns the not-found error of the looked-up
\* name, having dispatched nothing, exactly when the target has no run
\* entries and no deps entries; a target with an entry is never reported.
C22_NotFoundIffNoEntries ==
    [][AtNotFoundCheck =>
          IF NoEntries(Top.target)
          THEN /\ result' = Result("NotFoundError", [NoDiagnostic EXCEPT !.name = Top.name])
               /\ stack' = <<>>
               /\ log' = log
          ELSE result'.kind # "NotFoundError"]_vars

\* C22, amended: runTargetWithContext returns the not-found error of the
\* looked-up name, having dispatched nothing, exactly when the target has
\* neither a run list nor a deps list (a name never declared, or declared
\* without those keys); a target with a list, even an empty one, is never
\* reported, and its check dispatches nothing; a requested target declared
\* with empty lists only ends without error, nothing dispatched.
C22_NotFoundIffAbsent ==
    /\ [](pc = "done" /\ NoEntries(cfg.Targets[A]) /\ ~Absent(cfg.Targets[A])
            => result = Nil /\ log = <<>>)
    /\ [][AtNotFoundCheck =>
             IF Absent(Top.target)
             THEN /\ result' = Result("NotFoundError", [NoDiagnostic EXCEPT !.name = Top.name])
                  /\ stack' = <<>>
                  /\ log' = log
             ELSE /\ result' = result
                  /\ stack' # <<>>
                  /\ log' = log]_vars

\* a dependency declared without keys was reported not found
C22_Witness ==
    /\ pc = "done"
    /\ result.kind = "NotFoundError"
    /\ result.diag.name = B
    /\ B \in DOMAIN cfg.Targets
    /\ log = <<>>

-----------------------------------------------------------------------------
(* C23 *)

IsFile(name) == Contains(name, <<".">>)

\* C23: a dependency that contains a dot is never looked up (no lifecycle of
\* that name is entered), never dispatched for and never named in an error,
\* declared or not; the walk goes on to the next entry: a run that ends
\* without error has gone through every target listed after the file.
C23_FileDependencyIsNoOp ==
    /\ \A j \in 1..Len(stack) : ~IsFile(stack[j].name)
    /\ \A j \in 1..Len(log) : ~IsFile(log[j].name)
    /\ ~IsFile(result.diag.name)
    /\ \A m \in 1..Len(stderr) : ~IsFile(stderr[m].diag.name)
    /\ (pc = "done" /\ result = Nil) =>
          \A i \in 1..Len(cfg.Targets[A].Deps.s) :
              LET dep == cfg.Targets[A].Deps.s[i] IN
              ~IsFile(dep) =>
                  Cardinality({j \in 1..Len(log) : log[j].name = dep})
                      = Len(GetTarget(dep).Run.s)

\* the walk went past a file dependency whose name is a declared target and
\* ran the target listed after it
C23_Witness ==
    /\ pc = "done"
    /\ result = Nil
    /\ FILE \in DOMAIN cfg.Targets
    /\ cfg.Targets[A].Deps.s = <<FILE, B>>
    /\ \E j \in 1..Len(log) : log[j].name = B

-----------------------------------------------------------------------------
(* Invocations over acyclic dependency graphs *)

\* target a: one to MaxRun commands, after b, after b and c or after a file
\* and b, with or without an onerror text, either policy
DepsTargetsA ==
    {Target(Slice(r), Slice(d), o, c) :
        r \in SeqsUpTo({MAKE}, MaxRun) \ {<<>>},
        d \in {<<B>>, <<B, C>>, <<FILE, B>>},
        o \in {<<>>, <<"x">>},
        c \in BOOLEAN}

\* target b: one command, alone or after c, with a blank onerror text or
\* one of its own, either policy
DepsTargetsB ==
    {Target(Slice(<<MAKE>>), d, o, c) :
        d \in {NilSlice, Slice(<<C>>)},
        o \in {<<" ">>, <<"y">>},
        c \in BOOLEAN}

\* cfg.Targets: a and b declared, c declared or not
DepsTargetMaps ==
    {[n \in {A, B} \cup D |-> IF n = A THEN a ELSE IF n = B THEN b ELSE TargetC] :
        a \in DepsTargetsA, b \in DepsTargetsB, D \in SUBSET {C}}

DepsConfigs ==
    [ContinueOnError : BOOLEAN, Prologue : {ZeroTarget}, Vars : {<<>>},
     Targets : DepsTargetMaps, Epilogue : {ZeroTarget}]

\* the build command asked for target a
DepsInit ==
    /\ InitWith(DepsConfigs, {FALSE}, BOOLEAN)
    /\ targets = <<A>>

DepsSpec == DepsInit /\ [][Next]_vars

-----------------------------------------------------------------------------
(* Invocations that reach a target more than once *)

\* cfg.Targets: a after b, after c, or after both; b alone or after c; c
\* with one to MaxRun commands
DiamondTargetMaps ==
    {[n \in {A, B, C} |->
          IF n = A THEN Target(Slice(<<MAKE>>), Slice(da), <<>>, FALSE)
          ELSE IF n = B THEN Target(Slice(<<MAKE>>), db, <<>>, FALSE)
          ELSE Target(Slice(rc), NilSlice, <<>>, FALSE)] :
        da \in {<<B>>, <<C>>, <<B, C>>, <<C, B, C>>},
        db \in {NilSlice, Slice(<<C>>)},
        rc \in SeqsUpTo({MAKE}, MaxRun) \ {<<>>}}

DiamondConfigs ==
    [ContinueOnError : BOOLEAN, Prologue : {ZeroTarget}, Vars : {<<>>},
     Targets : DiamondTargetMaps, Epilogue : {ZeroTarget}]

\* the -t flag: one name, a name after another, a name twice
DiamondRequests == {<<A>>, <<B, A>>, <<A, A>>}

DiamondInit ==
    /\ cfg \in DiamondConfigs
    /\ legacy = FALSE
    /\ dryRun \in BOOLEAN
    /\ flags = NoFlags
    /\ stdout = <<>>
    /\ targets \in DiamondRequests
    /\ pc = "start"
    /\ k = 1
    /\ stack = <<>>
    /\ result = Running
    /\ log = <<>>
    /\ stderr = <<>>
    /\ cwd = StartDir
    /\ environ = <<>>
    /\ ret = NoRet

DiamondSpec == DiamondInit /\ [][Next]_vars

-----------------------------------------------------------------------------
(* C24 *)

\* the number of dependency paths that lead from a target to target n (the
\* empty path counts when they are the same target)
RECURSIVE PathCount(_, _, _), DepPaths(_, _, _)
PathCount(from, n, fuel) ==
    IF fuel = 0 THEN 0
    ELSE (IF from = n THEN 1 ELSE 0) + DepPaths(GetTarget(from).Deps.s, n, fuel - 1)
DepPaths(deps, n, fuel) ==
    IF deps = <<>> THEN 0
    ELSE (IF IsFile(Head(deps)) THEN 0 ELSE PathCount(Head(deps), n, fuel))
         + DepPaths(Tail(deps), n, fuel)

\* the same, from each requested target in turn
RECURSIVE RequestPaths(_, _)
RequestPaths(names, n) ==
    IF names = <<>> THEN 0
    ELSE PathCount(Head(names), n, MaxDepth) + RequestPaths(Tail(names), n)

\* the number of times command i of target n was dispatched
Dispatches(n, i) == Cardinality({j \in 1..Len(log) : log[j].name = n /\ log[j].i = i})

\* C24: when an invocation ends without any command having failed, each
\* command of each target has been dispatched once for every dependency path
\* that leads to the target from a requested target, a target requested twice
\* counting twice: nothing is remembered from one visit to the next.
C24_NoMemoization ==
    (pc = "done" /\ result = Nil /\ \A j \in 1..Len(log) : ~Failed(log[j])) =>
        \A n \in DOMAIN cfg.Targets :
            \A i \in 1..Len(cfg.Targets[n].Run.s) :
                Dispatches(n, i) = RequestPaths(targets, n)

\* a was requested twice over a diamond (a after b and c, b after c): every
\* command of c ran four times, for real
C24_Witness ==
    /\ pc = "done"
    /\ result = Nil
    /\ ~dryRun
    /\ \A j \in 1..Len(log) : ~Failed(log[j])
    /\ targets = <<A, A>>
    /\ cfg.Targets[A].Deps.s = <<B, C>>
    /\ cfg.Targets[B].Deps.s = <<C>>
    /\ Len(cfg.Targets[C].Run.s) = MaxRun
    /\ Dispatches(C, MaxRun) = 4

-----------------------------------------------------------------------------
(* C25 *)

\* the diagnostic expected for a failed command: the name of the
\* target the command belongs to, with that target's onerror text when it is
\* not blank and the text of the error otherwise
Asked25(e) ==
    LET t == TargetOf(e) IN
    IF TrimSpace(t.Onerror) # <<>>
    THEN [name |-> e.name, onerror |-> t.Onerror, err |-> "nil"]
    ELSE [name |-> e.name, onerror |-> <<>>, err |-> e.err]

\* the diagnostics of the failed commands, in order
RECURSIVE AskedDiagnostics(_)
AskedDiagnostics(entries) ==
    IF entries = <<>> THEN <<>>
    ELSE (IF Failed(Head(entries)) THEN <<Asked25(Head(entries))>> ELSE <<>>)
         \o AskedDiagnostics(Tail(entries))

\* the diagnostics composed so far: the warnings on stderr, then the error
\* the invocation ended with
RECURSIVE Warned(_)
Warned(msgs) ==
    IF msgs = <<>> THEN <<>>
    ELSE (IF Head(msgs).kind = "Warning" THEN <<Head(msgs).diag>> ELSE <<>>)
         \o Warned(Tail(msgs))

Composed ==
    Warned(stderr) \o (IF result.kind = "ExecutionError" THEN <<result.diag>> ELSE <<>>)

\* C25: the diagnostics composed for the failed commands (warnings, then the
\* final error) are, in order, one per failed command: each names the target
\* the command belongs to and carries that target's onerror text when it is
\* not blank, the text of the error otherwise; never the requester's.
C25_DiagnosticNamesOwnTarget == ~dryRun => Composed = AskedDiagnostics(log)

\* a dependency with its own onerror text failed for good, after its own
\* dependency had run, under a requester that has another text
C25_Witness ==
    /\ ~dryRun
    /\ result.kind = "ExecutionError"
    /\ result.diag.name = B
    /\ result.diag.onerror = <<"y">>
    /\ cfg.Targets[A].Onerror = <<"x">>
    /\ Len(log) >= 2

-----------------------------------------------------------------------------
(* C27 *)

\* the failed commands of the dependencies of the requested target
DependencyFailures ==
    {j \in 1..Len(log) : Failed(log[j]) /\ log[j].name # targets[log[j].k]}

\* C27: (not in dry-run) a failed command of a dependency whose own flag and
\* the global flag are both unset ends the invocation with that command's
\* error: nothing is dispatched after it, whatever the flag of the requested
\* target; a failed command of a dependency with one of the two flags set is
\* followed by the rest of the walk (which only a target that is not found
\* cuts short), and when every failure of the invocation is such a one and
\* every target is declared the requested target has run all its commands
\* and the invocation ends without error.
C27_DependencyPolicyDecides ==
    ~dryRun =>
        /\ \A j \in DependencyFailures :
              IF ContinueFlag(TargetOf(log[j]))
              THEN (pc = "done" /\ j = Len(log)) => result.kind = "NotFoundError"
              ELSE /\ j = Len(log)
                   /\ pc = "done"
                   /\ result = Result("ExecutionError",
                                      Diagnostic(log[j].name, TargetOf(log[j]), log[j].err))
        /\ (/\ pc = "done"
            /\ C \in DOMAIN cfg.Targets
            /\ \A j \in 1..Len(log) : Failed(log[j]) =>
                  j \in DependencyFailures /\ ContinueFlag(TargetOf(log[j]))) =>
              /\ result = Nil
              /\ \A i \in 1..Len(cfg.Targets[A].Run.s) : Dispatches(A, i) = 1

\* the requested target continues on error, its dependency does not and no
\* global flag is set: the dependency's command failed and ended the run
C27_Witness ==
    /\ ~dryRun
    /\ pc = "done"
    /\ cfg.Targets[A].ContinueOnError
    /\ ~cfg.Targets[B].ContinueOnError
    /\ ~cfg.ContinueOnError
    /\ log # <<>>
    /\ log[Len(log)].name = B
    /\ Failed(log[Len(log)])
    /\ result.kind = "ExecutionError"

-----------------------------------------------------------------------------
(* C28 *)

\* What the walk of a target visits when no command stops it: the (target,
\* command) pairs in order, up to the first target that has neither a run
\* list nor a deps list, which is kept in `missing` (empty when there is none).
Visit(trace, missing) == [trace |-> trace, missing |-> missing]

RECURSIVE Walk(_, _), WalkAll(_, _)
Walk(name, fuel) ==
    LET t == GetTarget(name)
        d == WalkAll(SelectSeq(t.Deps.s, LAMBDA dep : ~IsFile(dep)), fuel - 1)
    IN  IF fuel = 0 THEN Visit(<<>>, <<>>)
        ELSE IF d.missing # <<>> THEN d
        ELSE IF Absent(t) THEN Visit(d.trace, <<name>>)
        ELSE Visit(d.trace \o [i \in 1..Len(t.Run.s) |-> <<name, t.Run.s[i]>>], <<>>)
WalkAll(names, fuel) ==
    IF names = <<>> THEN Visit(<<>>, <<>>)
    ELSE LET h == Walk(Head(names), fuel) IN
         IF h.missing # <<>> THEN h
         ELSE LET r == WalkAll(Tail(names), fuel) IN Visit(h.trace \o r.trace, r.missing)

\* the (target, command of the configuration) pairs dispatched so far
Visited == [j \in 1..Len(log) |-> <<log[j].name, Raw(log[j])>>]

\* what the invocation ends with after such a walk
WalkResult(w) ==
    IF w.missing = <<>> THEN Nil
    ELSE Result("NotFoundError", [NoDiagnostic EXCEPT !.name = w.missing[1]])

\* C28: a dry-run follows the walk of the requested targets whatever the
\* commands are; it ends with an error exactly when the walk reaches a target
\* that is not found, with that target's not-found error and nothing
\* dispatched past that point, and without error after the whole walk
\* otherwise.
C28_DryRunFailsOnlyOnLookup ==
    dryRun =>
        LET w == WalkAll(targets, MaxDepth) IN
        /\ result.kind \in {"running", "nil", "NotFoundError"}
        /\ IsPrefix(Visited, w.trace)
        /\ pc = "done" => (Visited = w.trace /\ result = WalkResult(w))

\* a dry-run ended at a target that is not found, after it had visited
\* commands
C28_Witness ==
    /\ dryRun
    /\ pc = "done"
    /\ result.kind = "NotFoundError"
    /\ result.diag.name = C
    /\ log # <<>>

-----------------------------------------------------------------------------
(* C29 *)

\* C29: an invocation in which no command fails, dry-run or not, visits the
\* (target, command) pairs of the walk of the requested targets in order and
\* ends with the walk's result; the walk is the same for both modes, so a
\* dry-run and a real run of the same request in which every command
\* succeeds visit the same sequence and return the same result.
C29_DryRunFollowsRealRun ==
    (\A j \in 1..Len(log) : ~Failed(log[j])) =>
        LET w == WalkAll(targets, MaxDepth) IN
        /\ IsPrefix(Visited, w.trace)
        /\ pc = "done" => (Visited = w.trace /\ result = WalkResult(w))

\* a real run in which every command succeeded has gone through a target,
\* its dependency and the dependency's dependency
C29_Witness ==
    /\ ~dryRun
    /\ pc = "done"
    /\ result = Nil
    /\ \A j \in 1..Len(log) : ~Failed(log[j])
    /\ \E j \in 1..Len(log) : log[j].spawned
    /\ Len(log) >= 4
    /\ cfg.Targets[B].Deps.s = <<C>>

-----------------------------------------------------------------------------
(* C30 *)

\* The program is sequential and every dispatched command returns: whenever
\* a step is possible, one is taken.
FairDepsSpec == DepsSpec /\ WF_vars(Next)

\* the invocation has returned: no error, the not-found error of a target
\* after which nothing was dispatched, or the error of its first fatal
\* failure, which is the last command dispatched
Returned ==
    /\ pc = "done"
    /\ stack = <<>>
    /\ \/ result = Nil
       \/ result.kind = "NotFoundError"
       \/ /\ result.kind = "ExecutionError"
          /\ log # <<>>
          /\ FatalFailure(log[Len(log)])
          /\ result.diag.name = log[Len(log)].name
    /\ \A j \in 1..(Len(log) - 1) : ~FatalFailure(log[j])

\* C30: over an acyclic dependency graph, every invocation returns, whatever
\* the target names and the continue flags: with no error, or with the first
\* fatal error.
C30_Terminates == <>Returned

\* an invocation returned the error of a dependency's command after earlier
\* failures that the policy let pass
C30_Witness ==
    /\ Returned
    /\ result.kind = "ExecutionError"
    /\ \E j \in 1..(Len(log) - 1) : Failed(log[j])
    /\ log[Len(log)].name # A

-----------------------------------------------------------------------------
(* Invocations with every combination of the verbose, parallel and force flags *)

\* target a: one to MaxRun commands, after b or after a file and b
OptionsTargetsA ==
    {Target(Slice(r), Slice(d), <<>>, c) :
        r \in SeqsUpTo({MAKE}, MaxRun) \ {<<>>},
        d \in {<<B>>, <<FILE, B>>},
        c \in BOOLEAN}

\* cfg.Targets: a and c declared; b undeclared, or one command, either policy
OptionsTargetMaps ==
    {[n \in {A, C} |-> IF n = A THEN a ELSE TargetC] : a \in OptionsTargetsA}
    \cup {[n \in {A, B, C} |->
              IF n = A THEN a
              ELSE IF n = B THEN Target(Slice(<<MAKE>>), NilSlice, <<>>, c)
              ELSE TargetC] :
            a \in OptionsTargetsA, c \in BOOLEAN}

OptionsConfigs ==
    [ContinueOnError : BOOLEAN, Prologue : Prologues, Vars : {<<>>},
     Targets : OptionsTargetMaps, Epilogue : Epilogues]

\* the build command asked for target a, with any flags
OptionsInit ==
    /\ cfg \in OptionsConfigs
    /\ legacy = FALSE
    /\ flags \in Flags
    /\ stdout = <<>>
    /\ dryRun \in BOOLEAN
    /\ targets = <<A>>
    /\ pc = "start"
    /\ k = 1
    /\ stack = <<>>
    /\ result = Running
    /\ log = <<>>
    /\ stderr = <<>>
    /\ cwd = StartDir
    /\ environ = <<>>
    /\ ret = NoRet

OptionsSpec == OptionsInit /\ [][Next]_vars

-----------------------------------------------------------------------------
(* C26 *)

\* What an invocation dispatches and returns, as a function of the
\* configuration, the dry-run flag, the requested targets and the errors the
\* dispatched commands returned (read from the log, one per dispatch), and of
\* nothing else: commands one at a time in the order of the walk.  `trace`
\* is the sequence of (target, index) dispatched, `end` the result once the
\* invocation has returned, `open` says that the next dispatch has no
\* answer in the log yet.
Replayed(trace, end, open) == [trace |-> trace, end |-> end, open |-> open]

Going(st) == st.end = <<>> /\ ~st.open

RECURSIVE ReplayRun(_, _, _, _)
ReplayRun(name, t, i, st) ==
    IF ~Going(st) \/ i > Len(t.Run.s) THEN st
    ELSE IF Len(st.trace) >= Len(log) THEN [st EXCEPT !.open = TRUE]
    ELSE LET e == log[Len(st.trace) + 1]
             st1 == [st EXCEPT !.trace = Append(@, <<name, i>>)]
         IN  IF Failed(e) /\ ~dryRun /\ ~ContinueFlag(t)
             THEN [st1 EXCEPT !.end = <<Result("ExecutionError", Asked25(e))>>]
             ELSE ReplayRun(name, t, i + 1, st1)

RECURSIVE ReplayTarget(_, _, _), ReplayDeps(_, _, _)
ReplayTarget(name, fuel, st) ==
    LET t == GetTarget(name)
        st1 == ReplayDeps(t.Deps.s, fuel - 1, st)
    IN  IF fuel = 0 \/ ~Going(st) THEN st
        ELSE IF ~Going(st1) THEN st1
        ELSE IF Absent(t)
        THEN [st1 EXCEPT !.end = <<Result("NotFoundError",
                                          [NoDiagnostic EXCEPT !.name = name])>>]
        ELSE ReplayRun(name, t, 1, st1)
ReplayDeps(deps, fuel, st) ==
    IF deps = <<>> \/ ~Going(st) THEN st
    ELSE ReplayDeps(Tail(deps), fuel,
                    IF IsFile(Head(deps)) THEN st ELSE ReplayTarget(Head(deps), fuel, st))

\* prologue and epilogue: dependencies, then commands, with no lookup
ReplayStage(name, t, st) ==
    ReplayRun(name, t, 1, ReplayDeps(t.Deps.s, MaxDepth - 1, st))

RECURSIVE ReplayTargets(_, _)
ReplayTargets(names, st) ==
    IF names = <<>> \/ ~Going(st) THEN st
    ELSE ReplayTargets(Tail(names), ReplayTarget(Head(names), MaxDepth, st))

Replay ==
    LET p == ReplayStage(PROLOGUE, cfg.Prologue, Replayed(<<>>, <<>>, FALSE))
        t == ReplayTargets(targets, p)
        e == ReplayStage(EPILOGUE, cfg.Epilogue, t)
    IN  IF targets = <<>>
        THEN (IF Going(p) THEN [p EXCEPT !.end = <<Nil>>] ELSE p)
        ELSE IF Going(e) THEN [e EXCEPT !.end = <<Nil>>] ELSE e

====
